---- MODULE Spec2Model ----
(***************************************************************************)
(* A model of chasqui: the per-connection Attendant (state machine, read   *)
(* loop, throttle, stop classification), the Dispatcher (listener and      *)
(* accept loop) and the Server (fan-in goroutine, attendant set, Stop).    *)
(*                                                                         *)
(* Every goroutine of the program is a process of the model with its own   *)
(* program counter; a statement that reads or writes shared memory, sends  *)
(* on or receives from a channel is one step.  A send on an unbuffered     *)
(* channel is a joint step of the sender and the receiver.                 *)
(***************************************************************************)
EXTENDS Integers, Sequences, FiniteSets, TLC

(* ------------------------------ bounds -------------------------------- *)
\* attendants (connections) that can exist
NAtt == 2
\* successful Start() calls, hence read-loop goroutines, per attendant
MaxStarts == 2
\* messages a peer sends on the connection whose throttle is examined
MaxMsgs == 3
\* the clock runs from 1 to MaxTime
MaxTime == 3
\* throttle durations range over -MaxThrottle..MaxThrottle
MaxThrottle == 2
\* bufferSize values NewClient is called with: 0..MaxBuf
MaxBuf == 1
\* successful Dispatcher.Run calls that can be made
MaxRuns == 2
\* connections accepted and successful Run calls where the whole life cycle of a
\* server, with its user and its peers, is examined
LifeConns == 1
LifeRuns == 1
\* successful Run calls and connections accepted where a server is run again
\* after it was stopped
RerunRuns == 2
RerunConns == 1
\* connections accepted by a server that is run and keeps running
ServeConns == 2
\* messages a peer sends on a connection whose life cycle is examined
MaxLifeMsgs == 1
\* lifecycleBufferSize values NewServer is called with: 0..MaxLifeBuf
MaxLifeBuf == 1

\* goroutines that call Dispatcher.Run
NCallers == 2
\* Accept() errors where a funnel counts the events it dispatches
MaxAcceptErrs == 1
\* width in bits of the two's-complement integer that stands for time.Duration,
\* an int64, where every duration is examined
DurationBits == 4

Att == 1..NAtt
Gor == 1..MaxStarts
Runs == 1..MaxRuns
Callers == 1..NCallers

(* ----------------------- constants of the source ----------------------- *)
AttendantNew == "New"
AttendantRunning == "Running"
AttendantStopped == "Stopped"

AttendantLocalStop == "Local"
AttendantRemoteStop == "Remote"
AttendantAbnormalStop == "Abnormal"

\* time.Time{}: the zero instant, which no reading of the clock returns
ZeroTime == 0

\* NewServer: the floors of activityBufferSize and lifecycleBufferSize
ActivityFloor == 16
LifecycleFloor == 1

\* the keys and the values of an attendant's context that are examined, and the
\* absence of a value
Keys == {"user"}
Values == {"v1", "v2"}
NoValue == "none"

\* the kinds of event of a server, one per channel and per method of
\* BasicServerFunnel
Kinds == {"Started", "AcceptFailed", "Stopped", "AttendantStarted", "MessageArrived",
          "MessageThrottled", "AttendantStopped"}

\* the errors Receive() can return, and no error
ErrClosed == "closed"
ErrEOF == "eof"
ErrBad == "bad"
NoError == "nil"

VARIABLES
  \* ---- Attendant: fields
  created,        \* the attendant object exists
  status,         \* attendant.status
  conn,           \* attendant.connection: "open", or "closed" once Close() was called on it
  throttle,       \* attendant.throttle
  throttleFrom,   \* attendant.throttleFrom
  rl,             \* the read-loop goroutines of each attendant: pc and locals
  \* ---- the channels an attendant writes to
  messageEvent,   \* chan MessageEvent
  throttledEvent, \* chan ThrottledEvent
  actCap,         \* capacity of messageEvent and throttledEvent
  \* ---- environment
  remote,         \* what the peer did to the stream: "open", "eof" (closed it), "bad" (malformed bytes / I/O failure)
  sent,           \* messages the peer has written
  recvd,          \* messages Receive() has returned
  clock,          \* time.Now()
  \* ---- history
  startedLog,     \* 'attendant started' events handed over on startedEvent, per attendant
  stoppedLog,     \* 'attendant stopped' events handed over on stoppedEvent, per attendant
  localStop,      \* a Stop() call returned nil while the attendant was Running
  thrConst,       \* the throttle is still the one given at construction
  lastAdmit,      \* instant of the last message sent to messageEvent (while thrConst)
  enabling,       \* "armed" once SetThrottle took the throttle from 0 to > 0; then what became of
                  \* the first message received with it: "admitted" or "throttled"; else "no"
  \* ---- Dispatcher
  listener,       \* dispatcher.listener: "nil" or "bound"
  mutex,          \* dispatcher.mutex is held
  acc,            \* the accept-loop goroutine of each successful Run: pc
  \* ---- Server
  closer,         \* basicServer.closer: 0 for nil, else the Run whose quit channel it writes to
  defaultThrottle,\* NewServer's defaultThrottle
  attendants,     \* basicServer.attendants
  quitClosed,     \* NewServer's quit channel is closed
  fan,            \* the fan-in goroutines, one per 'started' report: pc and the event held
  runs,           \* successful Dispatcher.Run calls so far
  stopper,        \* the goroutine inside BasicServer.Stop(): pc and the attendants visited
  startedQ, acceptFailedQ, attStartedQ, attStoppedQ, stoppedQ,  \* the server's lifecycle channels
  lifeCap,        \* their capacity
  panicked,       \* a goroutine panicked
  \* ---- what was published, and the callbacks made
  msgLog,         \* per attendant, the messages the consumer took from the Message channel, in order
  thrLog,         \* per attendant, the messages the consumer took from the Throttled channel, in order
  startedPub,     \* attendants whose 'attendant started' event was placed on the server's channel
  cbLog,          \* per Run, the callbacks the accept loop invoked, in order, and the closing of its listener
  \* ---- callers of the Dispatcher
  runner,         \* the goroutines inside Dispatcher.Run: pc
  openListeners,  \* TCP listeners that were bound and not closed
  addrCall,       \* the goroutine inside Dispatcher.Addr(): pc and what it returned last
  \* ---- users of an attendant and of a server
  context,        \* attendant.context: per attendant, the value of each key, or NoValue
  sendCall,       \* the goroutine inside Attendant.Send: pc, the status it read, whether the
                  \* marshaler was called, what the marshaler returned and what Send returned
  funnel,         \* the goroutine ServerFunnel spawns: pc and the kind of event it dispatches
  handled,        \* per kind of event, the handler invocations the funnel has made
  inHandler,      \* handler invocations that have begun and not returned
  sizesAsked      \* <<activityBufferSize, lifecycleBufferSize>> NewServer was called with,
                  \* where the sizes are examined; <<>> elsewhere

attVars == <<created, status, conn, throttle, throttleFrom, rl>>
chanVars == <<messageEvent, throttledEvent, actCap>>
envVars == <<remote, sent, recvd, clock>>
histVars == <<startedLog, stoppedLog, localStop, thrConst, lastAdmit, enabling>>
dispVars == <<listener, mutex, acc>>
srvVars == <<closer, defaultThrottle, attendants, quitClosed, fan, runs, stopper,
             startedQ, acceptFailedQ, attStartedQ, attStoppedQ, stoppedQ, lifeCap, panicked>>
pubVars == <<msgLog, thrLog, startedPub, cbLog>>
callVars == <<runner, openListeners, addrCall>>
userVars == <<context, sendCall, funnel, handled, inHandler, sizesAsked>>
vars == <<attVars, chanVars, envVars, histVars, dispVars, srvVars, pubVars, callVars, userVars>>

(* ------------------------------ Attendant ------------------------------ *)

\* a read-loop goroutine that was not spawned
NoLoop == [pc |-> "none", msg |-> 0, now |-> ZeroTime, lapse |-> 0,
           stopType |-> AttendantLocalStop, stopError |-> NoError,
           err |-> NoError, graceful |-> FALSE]

\* isClosedSocketError
isClosedSocketError(err) == err = ErrClosed

\* a classification that asks for the graceful flag before the closed-connection
\* error: what C8 rules out
StopTypeGracefulFirst(err, graceful) ==
  IF graceful THEN AttendantRemoteStop
  ELSE IF isClosedSocketError(err) THEN AttendantLocalStop
  ELSE AttendantAbnormalStop

\* the receive-error branch of readLoop: the stop type
StopTypeOf(err, graceful) ==
  IF isClosedSocketError(err) THEN AttendantLocalStop
  ELSE IF graceful THEN AttendantRemoteStop
  ELSE AttendantAbnormalStop

\* the receive-error branch of readLoop: the error kept for the event
StopErrorOf(err, graceful) ==
  IF StopTypeOf(err, graceful) = AttendantAbnormalStop THEN err ELSE NoError

\* the throttle check of readLoop: attendant.throttle == 0
NoThrottle(thr) == thr = 0

\* a check that never takes a message for the first one: what C10 rules out
FirstMessageNever(from) == FALSE

\* the throttle check of readLoop: attendant.throttleFrom == (time.Time{})
FirstMessage(from) == from = ZeroTime

\* a comparison that throttles a lapse equal to the throttle: what C9 rules out
LapseAdmitsStrict(lapse, thr) == lapse > thr

\* a throttle check that admits nothing
LapseAdmitsNever(lapse, thr) == FALSE

\* the throttle check of readLoop: lapse >= attendant.throttle
LapseAdmits(lapse, thr) == lapse >= thr

\* a throttle that is stored as it was given
NormalizeThrottleKeep(d) == d

\* the least and the greatest time.Duration
MinDuration == -(2 ^ (DurationBits - 1))
MaxDuration == 2 ^ (DurationBits - 1) - 1
Durations == MinDuration .. MaxDuration

\* the value of n as a time.Duration: Go's signed integers wrap around
Wrap(n) == ((n - MinDuration) % (2 ^ DurationBits)) + MinDuration

\* -d on a time.Duration
Negate(d) == Wrap(-d)

\* SetThrottle / NewAttendant: negative durations are negated
NormalizeThrottle(d) == IF d < 0 THEN Negate(d) ELSE d

\* NewAttendant
NewAttendant(a, thr) ==
  /\ created' = [created EXCEPT ![a] = TRUE]
  /\ status' = [status EXCEPT ![a] = AttendantNew]
  /\ conn' = [conn EXCEPT ![a] = "open"]
  /\ throttle' = [throttle EXCEPT ![a] = NormalizeThrottle(thr)]
  /\ throttleFrom' = [throttleFrom EXCEPT ![a] = ZeroTime]

\* the slot of the next goroutine `go attendant.readLoop()` spawns
FreeSlot(a) == CHOOSE g \in Gor : rl[a][g].pc = "none" /\ \A h \in Gor : h < g => rl[a][h].pc # "none"

\* Attendant.Start, as a step of the goroutine calling it
StartCall(a) ==
  IF status[a] = AttendantNew
  THEN /\ \E g \in Gor : rl[a][g].pc = "none"
       /\ rl' = [rl EXCEPT ![a][FreeSlot(a)].pc = "check"]
  ELSE UNCHANGED rl

\* Attendant.Stop, as a step of the goroutine calling it
StopCall(a) ==
  IF status[a] # AttendantStopped
  THEN /\ conn' = [conn EXCEPT ![a] = "closed"]
       /\ localStop' = [localStop EXCEPT ![a] = @ \/ status[a] = AttendantRunning]
  ELSE UNCHANGED <<conn, localStop>>

\* Attendant.Start called by the holder of the attendant
Start(a) ==
  /\ created[a]
  /\ StartCall(a)
  /\ UNCHANGED <<created, status, conn, throttle, throttleFrom>>
  /\ UNCHANGED <<chanVars, envVars, histVars, dispVars, srvVars>>
  /\ UNCHANGED <<pubVars, callVars>>
  /\ UNCHANGED userVars

\* Attendant.Stop called by the holder of the attendant
Stop(a) ==
  /\ created[a]
  /\ StopCall(a)
  /\ UNCHANGED <<created, status, throttle, throttleFrom, rl>>
  /\ UNCHANGED <<startedLog, stoppedLog, thrConst, lastAdmit, enabling>>
  /\ UNCHANGED <<chanVars, envVars, dispVars, srvVars>>
  /\ UNCHANGED <<pubVars, callVars>>
  /\ UNCHANGED userVars

\* Attendant.SetThrottle
SetThrottle(a, d) ==
  /\ created[a]
  /\ throttle' = [throttle EXCEPT ![a] = NormalizeThrottle(d)]
  /\ thrConst' = [thrConst EXCEPT ![a] = @ /\ throttle'[a] = throttle[a]]
  /\ lastAdmit' = [lastAdmit EXCEPT ![a] = IF thrConst'[a] THEN @ ELSE ZeroTime]
  /\ enabling' = [enabling EXCEPT ![a] =
                    IF @ = "checking" THEN @
                    ELSE IF throttle'[a] = 0 THEN "no"
                    ELSE IF throttle[a] = 0 THEN "armed" ELSE @]
  /\ UNCHANGED <<created, status, conn, throttleFrom, rl>>
  /\ UNCHANGED <<startedLog, stoppedLog, localStop>>
  /\ UNCHANGED <<chanVars, envVars, dispVars, srvVars>>
  /\ UNCHANGED <<pubVars, callVars>>
  /\ UNCHANGED userVars

\* what attendant.wrapper.Send can return: nil, or the error of the encoding or of
\* the write, which is all a write on a closed connection gives
WrapperSendOutcomes(a) == IF conn[a] = "closed" THEN {"writeError"} ELSE {NoError, "writeError"}

\* a Send that hides the error of the marshaler: what C22 rules out
SendResultNil(o) == NoError

\* Attendant.Send: return attendant.wrapper.Send(command, args, kwargs)
SendResult(o) == o

\* Attendant.Send: if attendant.status != AttendantStopped, else
\* return AttendantIsStopped(true)
SendCheck(a) ==
  /\ created[a]
  /\ sendCall.pc = "idle"
  /\ sendCall' = IF status[a] # AttendantStopped
                 THEN [pc |-> "marshal", att |-> a, seen |-> status[a], marshaled |-> FALSE,
                       returned |-> "none", result |-> "none"]
                 ELSE [pc |-> "idle", att |-> a, seen |-> status[a], marshaled |-> FALSE,
                       returned |-> "none", result |-> "stopped"]
  /\ UNCHANGED <<context, funnel, handled, inHandler, sizesAsked>>
  /\ UNCHANGED <<attVars, chanVars, envVars, histVars, dispVars, srvVars>>
  /\ UNCHANGED <<pubVars, callVars>>

\* Attendant.Send: attendant.wrapper.Send(command, args, kwargs) is called and
\* what it returns is returned
SendMarshal ==
  /\ sendCall.pc = "marshal"
  /\ \E o \in WrapperSendOutcomes(sendCall.att) :
       sendCall' = [sendCall EXCEPT !.pc = "idle", !.marshaled = TRUE,
                                    !.returned = o, !.result = SendResult(o)]
  /\ UNCHANGED <<context, funnel, handled, inHandler, sizesAsked>>
  /\ UNCHANGED <<attVars, chanVars, envVars, histVars, dispVars, srvVars>>
  /\ UNCHANGED <<pubVars, callVars>>

\* Attendant.SetContext
SetContext(a, k, v) ==
  /\ created[a]
  /\ context' = [context EXCEPT ![a][k] = v]
  /\ UNCHANGED <<sendCall, funnel, handled, inHandler, sizesAsked>>
  /\ UNCHANGED <<attVars, chanVars, envVars, histVars, dispVars, srvVars>>
  /\ UNCHANGED <<pubVars, callVars>>

\* Attendant.RemoveContext
RemoveContext(a, k) ==
  /\ created[a]
  /\ context' = [context EXCEPT ![a][k] = NoValue]
  /\ UNCHANGED <<sendCall, funnel, handled, inHandler, sizesAsked>>
  /\ UNCHANGED <<attVars, chanVars, envVars, histVars, dispVars, srvVars>>
  /\ UNCHANGED <<pubVars, callVars>>

\* readLoop: if attendant.status != AttendantNew { return }
RLCheck(a, g) ==
  /\ rl[a][g].pc = "check"
  /\ rl' = [rl EXCEPT ![a][g].pc = IF status[a] # AttendantNew THEN "returned" ELSE "setRunning"]
  /\ UNCHANGED <<created, status, conn, throttle, throttleFrom>>
  /\ UNCHANGED <<chanVars, envVars, histVars, dispVars, srvVars>>
  /\ UNCHANGED <<pubVars, callVars>>
  /\ UNCHANGED userVars

\* readLoop: attendant.status = AttendantRunning
RLSetRunning(a, g) ==
  /\ rl[a][g].pc = "setRunning"
  /\ status' = [status EXCEPT ![a] = AttendantRunning]
  /\ rl' = [rl EXCEPT ![a][g].pc = "sendStarted"]
  /\ UNCHANGED <<created, conn, throttle, throttleFrom>>
  /\ UNCHANGED <<chanVars, envVars, histVars, dispVars, srvVars>>
  /\ UNCHANGED <<pubVars, callVars>>
  /\ UNCHANGED userVars

\* readLoop: attendant.startedEvent <- AttendantStartedEvent{attendant}, the sender's half
EmitStarted(a, g) ==
  /\ rl[a][g].pc = "sendStarted"
  /\ rl' = [rl EXCEPT ![a][g].pc = "receive"]
  /\ startedLog' = [startedLog EXCEPT ![a] = @ + 1]

\* what attendant.wrapper.Receive() returns now: the error kinds, or none when it
\* returns a message or blocks
ReceiveErrors(a) ==
  IF conn[a] = "closed" THEN {<<ErrClosed, TRUE>>, <<ErrClosed, FALSE>>}
  ELSE IF recvd[a] < sent[a] THEN {}
  ELSE IF remote[a] = "eof" THEN {<<ErrEOF, TRUE>>}
  ELSE IF remote[a] = "bad" THEN {<<ErrBad, FALSE>>}
  ELSE {}

\* readLoop: Receive() returned an error; the stop type is chosen and the loop left
RLReceiveError(a, g) ==
  /\ rl[a][g].pc = "receive"
  /\ \E e \in ReceiveErrors(a) :
       rl' = [rl EXCEPT ![a][g] = [@ EXCEPT !.pc = "finish",
                                            !.err = e[1], !.graceful = e[2],
                                            !.stopType = StopTypeOf(e[1], e[2]),
                                            !.stopError = StopErrorOf(e[1], e[2])]]
  /\ UNCHANGED <<created, status, conn, throttle, throttleFrom>>
  /\ UNCHANGED <<chanVars, envVars, histVars, dispVars, srvVars>>
  /\ UNCHANGED <<pubVars, callVars>>
  /\ UNCHANGED userVars

\* readLoop: Receive() returned a message; attendant.throttle is read and, when
\* it is not zero, attendant.throttleFrom: the message goes to messageEvent, or
\* now and lapse are taken for the comparison with the throttle
RLReceiveMessage(a, g) ==
  /\ rl[a][g].pc = "receive"
  /\ conn[a] = "open"
  /\ recvd[a] < sent[a]
  /\ recvd' = [recvd EXCEPT ![a] = @ + 1]
  /\ LET free == NoThrottle(throttle[a])
         first == ~free /\ FirstMessage(throttleFrom[a])
         ok == free \/ first
     IN /\ rl' = [rl EXCEPT ![a][g] = [@ EXCEPT !.pc = IF ok THEN "sendMessage" ELSE "lapse",
                                                !.msg = recvd[a] + 1,
                                                !.now = IF ok THEN ZeroTime ELSE clock,
                                                !.lapse = IF ok THEN 0 ELSE clock - throttleFrom[a]]]
        /\ throttleFrom' = [throttleFrom EXCEPT ![a] = IF first THEN clock ELSE @]
        /\ lastAdmit' = [lastAdmit EXCEPT ![a] = IF ok /\ thrConst[a] THEN clock ELSE @]
        /\ enabling' = [enabling EXCEPT ![a] =
                          IF @ # "armed" THEN "no" ELSE IF ok THEN "admitted" ELSE "checking"]
  /\ UNCHANGED <<created, status, conn, throttle>>
  /\ UNCHANGED <<startedLog, stoppedLog, localStop, thrConst>>
  /\ UNCHANGED <<remote, sent, clock>>
  /\ UNCHANGED <<chanVars, dispVars, srvVars>>
  /\ UNCHANGED <<pubVars, callVars>>
  /\ UNCHANGED userVars

\* readLoop: if lapse >= attendant.throttle, with attendant.throttle read again:
\* throttleFrom = now and the message goes to messageEvent, or it goes to
\* throttledEvent
RLCompareLapse(a, g) ==
  /\ rl[a][g].pc = "lapse"
  /\ LET ok == LapseAdmits(rl[a][g].lapse, throttle[a])
     IN /\ rl' = [rl EXCEPT ![a][g].pc = IF ok THEN "sendMessage" ELSE "sendThrottled"]
        /\ throttleFrom' = [throttleFrom EXCEPT ![a] = IF ok THEN rl[a][g].now ELSE @]
        /\ lastAdmit' = [lastAdmit EXCEPT ![a] = IF ok /\ thrConst[a] THEN rl[a][g].now ELSE @]
        /\ enabling' = [enabling EXCEPT ![a] =
                          IF @ # "checking" THEN @ ELSE IF ok THEN "admitted" ELSE "throttled"]
  /\ UNCHANGED <<created, status, conn, throttle>>
  /\ UNCHANGED <<startedLog, stoppedLog, localStop, thrConst>>
  /\ UNCHANGED <<chanVars, envVars, dispVars, srvVars>>
  /\ UNCHANGED <<pubVars, callVars>>
  /\ UNCHANGED userVars

\* a send that loses the event: what C11 rules out
ChanSendDrop(q, e) == q

\* a send on a channel of capacity actCap whose consumer is always ready to
\* receive: buffered, or handed over at once when the channel is unbuffered
ChanSend(q, e) == IF actCap = 0 THEN q ELSE Append(q, e)
CanSend(q) == actCap = 0 \/ Len(q) < actCap

\* the consumer's record of the events it took, after a send of e: it has e at
\* once when the channel is unbuffered
Handed(log, e) == IF actCap = 0 THEN [log EXCEPT ![e.att] = Append(@, e.msg)] ELSE log

\* the consumer's record after it took e from a buffered channel
Taken(log, e) == [log EXCEPT ![e.att] = Append(@, e.msg)]

\* readLoop: attendant.messageEvent <- MessageEvent{attendant, message}
RLSendMessage(a, g) ==
  /\ rl[a][g].pc = "sendMessage"
  /\ CanSend(messageEvent)
  /\ messageEvent' = ChanSend(messageEvent, [att |-> a, msg |-> rl[a][g].msg])
  /\ msgLog' = Handed(msgLog, [att |-> a, msg |-> rl[a][g].msg])
  /\ rl' = [rl EXCEPT ![a][g] = [@ EXCEPT !.pc = "receive", !.msg = 0, !.now = ZeroTime, !.lapse = 0]]
  /\ UNCHANGED <<created, status, conn, throttle, throttleFrom>>
  /\ UNCHANGED <<throttledEvent, actCap>>
  /\ UNCHANGED <<envVars, histVars, dispVars, srvVars>>
  /\ UNCHANGED <<thrLog, startedPub, cbLog, callVars>>
  /\ UNCHANGED userVars

\* readLoop: attendant.throttledEvent <- ThrottledEvent{attendant, message, now, lapse}
RLSendThrottled(a, g) ==
  /\ rl[a][g].pc = "sendThrottled"
  /\ CanSend(throttledEvent)
  /\ throttledEvent' = ChanSend(throttledEvent, [att |-> a, msg |-> rl[a][g].msg,
                                                 instant |-> rl[a][g].now, lapse |-> rl[a][g].lapse])
  /\ thrLog' = Handed(thrLog, [att |-> a, msg |-> rl[a][g].msg])
  /\ rl' = [rl EXCEPT ![a][g] = [@ EXCEPT !.pc = "receive", !.msg = 0, !.now = ZeroTime, !.lapse = 0]]
  /\ UNCHANGED <<created, status, conn, throttle, throttleFrom>>
  /\ UNCHANGED <<messageEvent, actCap>>
  /\ UNCHANGED <<envVars, histVars, dispVars, srvVars>>
  /\ UNCHANGED <<msgLog, startedPub, cbLog, callVars>>
  /\ UNCHANGED userVars

\* readLoop, after the loop: attendant.status = AttendantStopped and, unless the
\* stop is local, attendant.connection.Close()
RLFinish(a, g) ==
  /\ rl[a][g].pc = "finish"
  /\ status' = [status EXCEPT ![a] = AttendantStopped]
  /\ conn' = [conn EXCEPT ![a] = IF rl[a][g].stopType # AttendantLocalStop THEN "closed" ELSE @]
  /\ rl' = [rl EXCEPT ![a][g].pc = "sendStopped"]
  /\ UNCHANGED <<created, throttle, throttleFrom>>
  /\ UNCHANGED <<chanVars, envVars, histVars, dispVars, srvVars>>
  /\ UNCHANGED <<pubVars, callVars>>
  /\ UNCHANGED userVars

\* the event readLoop sends last: AttendantStoppedEvent{attendant, stopType, stopError};
\* cause, graceful and closed record what Receive() had returned and the state of
\* the connection at the send
StoppedEventOf(a, g) ==
  [att |-> a, stopType |-> rl[a][g].stopType, error |-> rl[a][g].stopError,
   cause |-> rl[a][g].err, graceful |-> rl[a][g].graceful, closed |-> conn[a] = "closed"]

\* readLoop: attendant.stoppedEvent <- AttendantStoppedEvent{...}, the sender's half
EmitStopped(a, g) ==
  /\ rl[a][g].pc = "sendStopped"
  /\ rl' = [rl EXCEPT ![a][g] = [NoLoop EXCEPT !.pc = "done"]]
  /\ stoppedLog' = [stoppedLog EXCEPT ![a] = Append(@, StoppedEventOf(a, g))]

(* ------------------------------ environment ---------------------------- *)

\* the peer writes one more message, up to max of them
PeerSend(a, max) ==
  /\ created[a] /\ remote[a] = "open"
  /\ sent[a] < max
  /\ sent' = [sent EXCEPT ![a] = @ + 1]
  /\ UNCHANGED <<remote, recvd, clock>>
  /\ UNCHANGED <<attVars, chanVars, histVars, dispVars, srvVars>>
  /\ UNCHANGED <<pubVars, callVars>>
  /\ UNCHANGED userVars

\* the peer closes its side: the stream ends
PeerClose(a) ==
  /\ created[a] /\ remote[a] = "open"
  /\ remote' = [remote EXCEPT ![a] = "eof"]
  /\ UNCHANGED <<sent, recvd, clock>>
  /\ UNCHANGED <<attVars, chanVars, histVars, dispVars, srvVars>>
  /\ UNCHANGED <<pubVars, callVars>>
  /\ UNCHANGED userVars

\* the peer writes bytes that do not decode, or the stream fails
PeerBad(a) ==
  /\ created[a] /\ remote[a] = "open"
  /\ remote' = [remote EXCEPT ![a] = "bad"]
  /\ UNCHANGED <<sent, recvd, clock>>
  /\ UNCHANGED <<attVars, chanVars, histVars, dispVars, srvVars>>
  /\ UNCHANGED <<pubVars, callVars>>
  /\ UNCHANGED userVars

\* time passes
Tick ==
  /\ clock < MaxTime
  /\ clock' = clock + 1
  /\ UNCHANGED <<remote, sent, recvd>>
  /\ UNCHANGED <<attVars, chanVars, histVars, dispVars, srvVars>>
  /\ UNCHANGED <<pubVars, callVars>>
  /\ UNCHANGED userVars

\* the consumer takes the next event of the Message channel
ConsumeMessage ==
  /\ messageEvent # <<>>
  /\ messageEvent' = Tail(messageEvent)
  /\ msgLog' = Taken(msgLog, Head(messageEvent))
  /\ UNCHANGED <<throttledEvent, actCap>>
  /\ UNCHANGED <<attVars, envVars, histVars, dispVars, srvVars>>
  /\ UNCHANGED <<thrLog, startedPub, cbLog, callVars>>
  /\ UNCHANGED userVars

\* the consumer takes the next event of the Throttled channel
ConsumeThrottled ==
  /\ throttledEvent # <<>>
  /\ throttledEvent' = Tail(throttledEvent)
  /\ thrLog' = Taken(thrLog, Head(throttledEvent))
  /\ UNCHANGED <<messageEvent, actCap>>
  /\ UNCHANGED <<attVars, envVars, histVars, dispVars, srvVars>>
  /\ UNCHANGED <<msgLog, startedPub, cbLog, callVars>>
  /\ UNCHANGED userVars

(* ------------------------- a stand-alone client ------------------------ *)

\* a fan-in goroutine that was not spawned
NoFan == [pc |-> "none", ev |-> <<>>]

\* a goroutine that is not inside Dispatcher.Run and has not called it: seen is
\* the dispatcher.listener its call read first, result what its call returned
NoRun == [pc |-> "idle", seen |-> "none", result |-> "none"]

\* no goroutine is inside Dispatcher.Addr(), and none was
NoAddr == [pc |-> "idle", seen |-> "none", result |-> "none"]

\* no goroutine is inside Attendant.Send, and none was
NoSend == [pc |-> "idle", att |-> 0, seen |-> "none", marshaled |-> FALSE,
           returned |-> "none", result |-> "none"]

\* ServerFunnel was not called: no funnel goroutine
NoFunnel == [pc |-> "none", kind |-> "none"]

\* no goroutine is inside BasicServer.Stop()
Idle == [pc |-> "idle", run |-> 0, snap |-> {}, visited |-> {}]

\* the holder of a NewClient attendant receives from its StartedEvent() channel
ClientRecvStarted(a, g) ==
  /\ EmitStarted(a, g)
  /\ UNCHANGED <<created, status, conn, throttle, throttleFrom>>
  /\ UNCHANGED <<stoppedLog, localStop, thrConst, lastAdmit, enabling>>
  /\ UNCHANGED <<chanVars, envVars, dispVars, srvVars>>
  /\ UNCHANGED <<pubVars, callVars>>
  /\ UNCHANGED userVars

\* the holder of a NewClient attendant receives from its StoppedEvent() channel
ClientRecvStopped(a, g) ==
  /\ EmitStopped(a, g)
  /\ UNCHANGED <<created, status, conn, throttle, throttleFrom>>
  /\ UNCHANGED <<startedLog, localStop, thrConst, lastAdmit, enabling>>
  /\ UNCHANGED <<chanVars, envVars, dispVars, srvVars>>
  /\ UNCHANGED <<pubVars, callVars>>
  /\ UNCHANGED userVars

\* nothing of the server exists
NoServer ==
  /\ listener = "nil" /\ mutex = FALSE /\ acc = [r \in Runs |-> "none"]
  /\ closer = 0 /\ attendants = {} /\ quitClosed = FALSE
  /\ fan = [r \in Runs |-> NoFan]
  /\ runs = 0
  /\ stopper = Idle
  /\ startedQ = <<>> /\ acceptFailedQ = <<>> /\ attStartedQ = <<>>
  /\ attStoppedQ = <<>> /\ stoppedQ = <<>>
  /\ panicked = FALSE
  /\ startedPub = {}
  /\ cbLog = [r \in Runs |-> <<>>]
  /\ runner = [c \in Callers |-> NoRun]
  /\ openListeners = 0
  /\ addrCall = NoAddr
  /\ funnel = NoFunnel
  /\ handled = [k \in Kinds |-> 0]
  /\ inHandler = 0

\* no attendant exists
NoAttendants ==
  /\ created = [a \in Att |-> FALSE]
  /\ status = [a \in Att |-> AttendantNew]
  /\ conn = [a \in Att |-> "open"]
  /\ throttle = [a \in Att |-> 0]
  /\ throttleFrom = [a \in Att |-> ZeroTime]
  /\ rl = [a \in Att |-> [g \in Gor |-> NoLoop]]
  /\ remote = [a \in Att |-> "open"]
  /\ sent = [a \in Att |-> 0]
  /\ recvd = [a \in Att |-> 0]
  /\ startedLog = [a \in Att |-> 0]
  /\ stoppedLog = [a \in Att |-> <<>>]
  /\ localStop = [a \in Att |-> FALSE]
  /\ thrConst = [a \in Att |-> TRUE]
  /\ lastAdmit = [a \in Att |-> ZeroTime]
  /\ enabling = [a \in Att |-> "no"]
  /\ messageEvent = <<>>
  /\ throttledEvent = <<>>
  /\ msgLog = [a \in Att |-> <<>>]
  /\ thrLog = [a \in Att |-> <<>>]
  /\ clock = 1
  /\ context = [a \in Att |-> [k \in Keys |-> NoValue]]
  /\ sendCall = NoSend

\* NewClient(connection, factory, d, b): attendant 1, over a connection that was
\* dialed
NewClient(d, b) ==
  /\ NoServer
  /\ sizesAsked = <<>>
  /\ lifeCap = LifecycleFloor
  /\ defaultThrottle = 0
  /\ actCap = b
  /\ created = [a \in Att |-> a = 1]
  /\ status = [a \in Att |-> AttendantNew]
  /\ conn = [a \in Att |-> "open"]
  /\ throttle = [a \in Att |-> IF a = 1 THEN NormalizeThrottle(d) ELSE 0]
  /\ throttleFrom = [a \in Att |-> ZeroTime]
  /\ rl = [a \in Att |-> [g \in Gor |-> NoLoop]]
  /\ remote = [a \in Att |-> "open"]
  /\ sent = [a \in Att |-> 0]
  /\ recvd = [a \in Att |-> 0]
  /\ startedLog = [a \in Att |-> 0]
  /\ stoppedLog = [a \in Att |-> <<>>]
  /\ localStop = [a \in Att |-> FALSE]
  /\ thrConst = [a \in Att |-> TRUE]
  /\ lastAdmit = [a \in Att |-> ZeroTime]
  /\ enabling = [a \in Att |-> "no"]
  /\ messageEvent = <<>>
  /\ throttledEvent = <<>>
  /\ msgLog = [a \in Att |-> <<>>]
  /\ thrLog = [a \in Att |-> <<>>]
  /\ clock = 1
  /\ context = [a \in Att |-> [k \in Keys |-> NoValue]]
  /\ sendCall = NoSend

\* a client made with no throttle
InitClient == \E b \in 0..MaxBuf : NewClient(0, b)

\* a client made with any throttle
InitThrottle == \E d \in -MaxThrottle..MaxThrottle, b \in 0..MaxBuf : NewClient(d, b)

\* the steps of the read-loop goroutines of a NewClient attendant that has no
\* throttle, of its peer and of the consumer of its channels
ClientRuns ==
  \/ \E a \in Att, g \in Gor : RLCheck(a, g)
  \/ \E a \in Att, g \in Gor : RLSetRunning(a, g)
  \/ \E a \in Att, g \in Gor : ClientRecvStarted(a, g)
  \/ \E a \in Att, g \in Gor : RLReceiveError(a, g)
  \/ \E a \in Att, g \in Gor : RLReceiveMessage(a, g)
  \/ \E a \in Att, g \in Gor : RLSendMessage(a, g)
  \/ \E a \in Att, g \in Gor : RLFinish(a, g)
  \/ \E a \in Att, g \in Gor : ClientRecvStopped(a, g)
  \/ \E a \in Att : PeerClose(a)
  \/ \E a \in Att : PeerBad(a)
  \/ ConsumeMessage

\* the holder calls Start and Stop at any moment, any number of times
NextClient ==
  \/ \E a \in Att : Start(a)
  \/ \E a \in Att : Stop(a)
  \/ \E a \in Att : PeerSend(a, MaxLifeMsgs)
  \/ ClientRuns

\* one attendant made by NewClient with no throttle, its holder and its peer
ClientSpec == InitClient /\ [][NextClient]_vars

\* a read-loop goroutine of the attendant was spawned
Spawned(a) == \E g \in Gor : rl[a][g].pc # "none"

\* Attendant.Start called by a holder that stops calling it once it succeeded
StartOnce(a) == ~Spawned(a) /\ Start(a)

\* the holder starts the attendant, calls Stop, Send, SetContext and
\* RemoveContext at any moment, and the peer ends or breaks the connection
NextSend ==
  \/ \E a \in Att : StartOnce(a)
  \/ \E a \in Att : Stop(a)
  \/ \E a \in Att : SendCheck(a)
  \/ SendMarshal
  \/ \E a \in Att, k \in Keys, v \in Values : SetContext(a, k, v)
  \/ \E a \in Att, k \in Keys : RemoveContext(a, k)
  \/ \E a \in Att : PeerSend(a, MaxMsgs)
  \/ \E a \in Att, g \in Gor : RLCompareLapse(a, g)
  \/ \E a \in Att, g \in Gor : RLSendThrottled(a, g)
  \/ ConsumeThrottled
  \/ ClientRuns

\* one attendant made by NewClient, with any throttle, and the calls of its holder
SendSpec == InitThrottle /\ [][NextSend]_vars

\* the holder calls Start until it succeeds and SetThrottle at any moment, the
\* peer writes, closes or fails, and time passes
NextThrottle ==
  \/ \E a \in Att : StartOnce(a)
  \/ \E a \in Att, d \in -MaxThrottle..MaxThrottle : SetThrottle(a, d)
  \/ Tick
  \/ \E a \in Att : PeerSend(a, MaxMsgs)
  \/ \E a \in Att, g \in Gor : RLCompareLapse(a, g)
  \/ \E a \in Att, g \in Gor : RLSendThrottled(a, g)
  \/ ConsumeThrottled
  \/ ClientRuns

\* one attendant made by NewClient, started once, with a running clock
ThrottleSpec == InitThrottle /\ [][NextThrottle]_vars

\* a client made with any duration as its throttle
InitDuration == \E d \in Durations, b \in 0..MaxBuf : NewClient(d, b)

\* the holder starts the attendant and calls SetThrottle with any duration at
\* any moment, the peer writes, closes or fails, and time passes
NextDuration ==
  \/ \E a \in Att : StartOnce(a)
  \/ \E a \in Att, d \in Durations : SetThrottle(a, d)
  \/ Tick
  \/ \E a \in Att : PeerSend(a, MaxMsgs)
  \/ \E a \in Att, g \in Gor : RLCompareLapse(a, g)
  \/ \E a \in Att, g \in Gor : RLSendThrottled(a, g)
  \/ ConsumeThrottled
  \/ ClientRuns

DurationSpec == InitDuration /\ [][NextDuration]_vars

\* the holder starts the attendant once and calls Stop, SetContext and
\* RemoveContext at any moment, the peer writes, closes or fails, and time
\* passes
NextHandle ==
  \/ \E a \in Att : StartOnce(a)
  \/ \E a \in Att : Stop(a)
  \/ \E a \in Att, k \in Keys : SetContext(a, k, "v1")
  \/ \E a \in Att, k \in Keys : RemoveContext(a, k)
  \/ Tick
  \/ \E a \in Att : PeerSend(a, MaxMsgs)
  \/ \E a \in Att, g \in Gor : RLCompareLapse(a, g)
  \/ \E a \in Att, g \in Gor : RLSendThrottled(a, g)
  \/ ConsumeThrottled
  \/ ClientRuns

\* one attendant made by NewClient, started once, while its holder uses it
HandleSpec == InitThrottle /\ [][NextHandle]_vars

\* the holder calls Start until it succeeds and switches the throttle off and on
\* at any moment, the peer writes, closes or fails, and time passes
NextPublish ==
  \/ \E a \in Att : StartOnce(a)
  \/ \E a \in Att, d \in {0, MaxThrottle} : SetThrottle(a, d)
  \/ Tick
  \/ \E a \in Att : PeerSend(a, MaxMsgs)
  \/ \E a \in Att, g \in Gor : RLCompareLapse(a, g)
  \/ \E a \in Att, g \in Gor : RLSendThrottled(a, g)
  \/ ConsumeThrottled
  \/ ClientRuns

\* one attendant made by NewClient, started once, whose throttle is switched
\* off and on
PublishSpec == InitThrottle /\ [][NextPublish]_vars

\* the holder calls Start at any moment, any number of times, and the peer
\* writes several messages
NextOrder ==
  \/ \E a \in Att : Start(a)
  \/ \E a \in Att : PeerSend(a, MaxMsgs)
  \/ ClientRuns

\* one attendant made by NewClient with no throttle, receiving several messages
OrderSpec == InitClient /\ [][NextOrder]_vars

(* ------------------------------ Dispatcher ----------------------------- *)

\* a BasicServer.Run that assigns the closer Dispatcher.Run returned, nil, also
\* when it returned the 'already listening' error: what C40 rules out
RunAlreadyListeningDrops ==
  /\ ~panicked
  /\ listener # "nil"
  /\ closer # 0
  /\ closer' = 0
  /\ UNCHANGED <<defaultThrottle, attendants, quitClosed, fan, runs, stopper,
                 startedQ, acceptFailedQ, attStartedQ, attStoppedQ, stoppedQ, lifeCap, panicked>>
  /\ UNCHANGED <<attVars, chanVars, envVars, histVars, dispVars>>
  /\ UNCHANGED <<pubVars, callVars>>
  /\ UNCHANGED userVars

\* Dispatcher.Run with a listener bound: DispatcherAlreadyListeningError, and
\* BasicServer.Run keeps its closer
RunAlreadyListening ==
  /\ ~panicked
  /\ listener # "nil"
  /\ UNCHANGED vars

\* Dispatcher.Run whose ResolveTCPAddr or ListenTCP fails: it returns the error
\* with the mutex still locked, and BasicServer.Run keeps its closer
RunFails ==
  /\ ~panicked
  /\ listener = "nil" /\ ~mutex
  /\ mutex' = TRUE
  /\ UNCHANGED <<listener, acc>>
  /\ UNCHANGED <<attVars, chanVars, envVars, histVars, srvVars>>
  /\ UNCHANGED <<pubVars, callVars>>
  /\ UNCHANGED userVars

\* Dispatcher.Run that binds the listener and launches the accept loop, called
\* by the one goroutine that uses the server, when it is not inside Stop(), up
\* to max times; BasicServer.Run retains the closer
RunOk(max) ==
  /\ ~panicked
  /\ stopper.pc = "idle"
  /\ listener = "nil" /\ ~mutex
  /\ runs < max
  /\ listener' = "bound"
  /\ openListeners' = openListeners + 1
  /\ runs' = runs + 1
  /\ acc' = [acc EXCEPT ![runs + 1] = "onStart"]
  /\ closer' = runs + 1
  /\ UNCHANGED mutex
  /\ UNCHANGED <<defaultThrottle, attendants, quitClosed, fan, stopper,
                 startedQ, acceptFailedQ, attStartedQ, attStoppedQ, stoppedQ, lifeCap, panicked>>
  /\ UNCHANGED <<attVars, chanVars, envVars, histVars>>
  /\ UNCHANGED <<pubVars, runner, addrCall>>
  /\ UNCHANGED userVars

\* Dispatcher.Run called by goroutine c, which calls it once:
\* if dispatcher.listener != nil { return nil, DispatcherAlreadyListeningError(true) }
RunCheck(c) ==
  /\ ~panicked
  /\ runner[c] = NoRun
  /\ runner' = [runner EXCEPT ![c] =
                  IF listener # "nil"
                  THEN [pc |-> "idle", seen |-> listener, result |-> "alreadyListening"]
                  ELSE [pc |-> "lock", seen |-> listener, result |-> "none"]]
  /\ UNCHANGED <<openListeners, addrCall>>
  /\ UNCHANGED <<attVars, chanVars, envVars, histVars, dispVars, srvVars, pubVars>>
  /\ UNCHANGED userVars

\* Dispatcher.Run: dispatcher.mutex.Lock()
RunLock(c) ==
  /\ ~panicked
  /\ runner[c].pc = "lock"
  /\ ~mutex
  /\ mutex' = TRUE
  /\ runner' = [runner EXCEPT ![c].pc = "listen"]
  /\ UNCHANGED <<listener, acc>>
  /\ UNCHANGED <<openListeners, addrCall>>
  /\ UNCHANGED <<attVars, chanVars, envVars, histVars, srvVars, pubVars>>
  /\ UNCHANGED userVars

\* Dispatcher.Run: ResolveTCPAddr or ListenTCP fails, as ListenTCP does on a port
\* that is in use: the error is returned with the mutex still locked
RunListenFails(c) ==
  /\ ~panicked
  /\ runner[c].pc = "listen"
  /\ runner' = [runner EXCEPT ![c].pc = "idle", ![c].result = "error"]
  /\ UNCHANGED <<openListeners, addrCall>>
  /\ UNCHANGED <<attVars, chanVars, envVars, histVars, dispVars, srvVars, pubVars>>
  /\ UNCHANGED userVars

\* Dispatcher.Run: ListenTCP binds a listener, as it does on a free port and on
\* port 0, and dispatcher.listener = listener
RunListenOk(c) ==
  /\ ~panicked
  /\ runner[c].pc = "listen"
  /\ listener' = "bound"
  /\ openListeners' = openListeners + 1
  /\ runner' = [runner EXCEPT ![c].pc = "unlock"]
  /\ UNCHANGED <<mutex, acc>>
  /\ UNCHANGED addrCall
  /\ UNCHANGED <<attVars, chanVars, envVars, histVars, srvVars, pubVars>>
  /\ UNCHANGED userVars

\* Dispatcher.Run: dispatcher.mutex.Unlock()
RunUnlock(c) ==
  /\ ~panicked
  /\ runner[c].pc = "unlock"
  /\ mutex' = FALSE
  /\ runner' = [runner EXCEPT ![c].pc = "launch"]
  /\ UNCHANGED <<listener, acc>>
  /\ UNCHANGED <<openListeners, addrCall>>
  /\ UNCHANGED <<attVars, chanVars, envVars, histVars, srvVars, pubVars>>
  /\ UNCHANGED userVars

\* Dispatcher.Run: go func(){...}() and return of the closer, which
\* BasicServer.Run retains
RunLaunch(c) ==
  /\ ~panicked
  /\ runner[c].pc = "launch"
  /\ runs < MaxRuns
  /\ runs' = runs + 1
  /\ acc' = [acc EXCEPT ![runs + 1] = "onStart"]
  /\ closer' = runs + 1
  /\ runner' = [runner EXCEPT ![c].pc = "idle", ![c].result = "closer"]
  /\ UNCHANGED <<listener, mutex>>
  /\ UNCHANGED <<openListeners, addrCall>>
  /\ UNCHANGED <<defaultThrottle, attendants, quitClosed, fan, stopper,
                 startedQ, acceptFailedQ, attStartedQ, attStoppedQ, stoppedQ, lifeCap, panicked>>
  /\ UNCHANGED <<attVars, chanVars, envVars, histVars, pubVars>>
  /\ UNCHANGED userVars

\* Dispatcher.Addr: if dispatcher.listener != nil, else
\* return nil, DispatcherNotListeningError(true)
AddrCheck ==
  /\ ~panicked
  /\ addrCall.pc = "idle"
  /\ addrCall' = IF listener # "nil"
                 THEN [pc |-> "read", seen |-> listener, result |-> "none"]
                 ELSE [pc |-> "idle", seen |-> listener, result |-> "notListening"]
  /\ UNCHANGED <<runner, openListeners>>
  /\ UNCHANGED <<attVars, chanVars, envVars, histVars, dispVars, srvVars, pubVars>>
  /\ UNCHANGED userVars

\* what return dispatcher.listener.Addr(), nil does when dispatcher.listener reads
\* as l: the address, or, the field being read again with no lock after the
\* check, the dereference of nil or the address of the listener the check saw
AddrOutcomes(l) == IF l # "nil" THEN {"addr"} ELSE {"panic", "addr"}

\* Dispatcher.Addr: return dispatcher.listener.Addr(), nil
AddrRead ==
  /\ ~panicked
  /\ addrCall.pc = "read"
  /\ \E o \in AddrOutcomes(listener) :
       /\ addrCall' = [addrCall EXCEPT !.pc = "idle", !.result = o]
       /\ panicked' = (o = "panic")
  /\ UNCHANGED <<runner, openListeners>>
  /\ UNCHANGED <<closer, defaultThrottle, attendants, quitClosed, fan, runs, stopper,
                 startedQ, acceptFailedQ, attStartedQ, attStoppedQ, stoppedQ, lifeCap>>
  /\ UNCHANGED <<attVars, chanVars, envVars, histVars, dispVars, pubVars>>
  /\ UNCHANGED userVars

\* a send on a lifecycle channel of the server
LifeCanSend(q) == Len(q) < lifeCap

\* the record of what the accept-loop goroutine of a Run did, after it did what:
\* "start", "accept" (an accept-success or an accept-error callback; a row of
\* them is recorded once), "quit" (the loop took the quit signal), "stop",
\* "event" (the Stopped event was sent) and "close" (the listener was closed and
\* cleared)
Logged(log, what) ==
  IF what = "accept" /\ log # <<>> /\ log[Len(log)] = "accept" THEN log ELSE Append(log, what)

\* an onDispatcherStart that returns to the accept loop without having sent the
\* Started event: what C39 rules out
AccOnStartNoSend(r) ==
  /\ ~panicked
  /\ acc[r] = "onStart"
  /\ acc' = [acc EXCEPT ![r] = "select"]
  /\ fan' = [fan EXCEPT ![r] = [pc |-> "select", ev |-> <<>>]]
  /\ UNCHANGED <<listener, mutex>>
  /\ UNCHANGED <<closer, defaultThrottle, attendants, quitClosed, runs, stopper,
                 startedQ, acceptFailedQ, attStartedQ, attStoppedQ, stoppedQ, lifeCap, panicked>>
  /\ UNCHANGED <<attVars, chanVars, envVars, histVars>>
  /\ cbLog' = [cbLog EXCEPT ![r] = Logged(@, "start")]
  /\ UNCHANGED <<msgLog, thrLog, startedPub, callVars>>
  /\ UNCHANGED userVars

\* accept loop: dispatcher.onStart, which is NewServer's onDispatcherStart up to
\* its send: the fan-in goroutine is spawned
AccOnStart(r) ==
  /\ ~panicked
  /\ acc[r] = "onStart"
  /\ acc' = [acc EXCEPT ![r] = "sendStarted"]
  /\ fan' = [fan EXCEPT ![r] = [pc |-> "select", ev |-> <<>>]]
  /\ UNCHANGED <<listener, mutex>>
  /\ UNCHANGED <<closer, defaultThrottle, attendants, quitClosed, runs, stopper,
                 startedQ, acceptFailedQ, attStartedQ, attStoppedQ, stoppedQ, lifeCap, panicked>>
  /\ UNCHANGED <<attVars, chanVars, envVars, histVars>>
  /\ cbLog' = [cbLog EXCEPT ![r] = Logged(@, "start")]
  /\ UNCHANGED <<msgLog, thrLog, startedPub, callVars>>
  /\ UNCHANGED userVars

\* onDispatcherStart: basicServer.startedEvent <- BasicServerStartedEvent{addr}
AccSendStarted(r) ==
  /\ ~panicked
  /\ acc[r] = "sendStarted"
  /\ LifeCanSend(startedQ)
  /\ startedQ' = Append(startedQ, r)
  /\ acc' = [acc EXCEPT ![r] = "select"]
  /\ UNCHANGED <<listener, mutex>>
  /\ UNCHANGED <<closer, defaultThrottle, attendants, quitClosed, fan, runs, stopper,
                 acceptFailedQ, attStartedQ, attStoppedQ, stoppedQ, lifeCap, panicked>>
  /\ UNCHANGED <<attVars, chanVars, envVars, histVars>>
  /\ UNCHANGED <<pubVars, callVars>>
  /\ UNCHANGED userVars

\* a goroutine is blocked in the closer of run r, sending on its quit channel
CloserWaiting(r) == stopper.pc = "closer" /\ stopper.run = r

\* accept loop: select { case <-quit: break Loop }, a joint step with the closer
\* func() { quit <- 1 } that BasicServer.Stop() is calling
AccSelectQuit(r) ==
  /\ ~panicked
  /\ acc[r] = "select"
  /\ CloserWaiting(r)
  /\ acc' = [acc EXCEPT ![r] = "onStop"]
  /\ stopper' = [stopper EXCEPT !.pc = "enumerate", !.snap = attendants, !.visited = {}]
  /\ UNCHANGED <<listener, mutex>>
  /\ UNCHANGED <<closer, defaultThrottle, attendants, quitClosed, fan, runs,
                 startedQ, acceptFailedQ, attStartedQ, attStoppedQ, stoppedQ, lifeCap, panicked>>
  /\ UNCHANGED <<attVars, chanVars, envVars, histVars>>
  /\ cbLog' = [cbLog EXCEPT ![r] = Logged(@, "quit")]
  /\ UNCHANGED <<msgLog, thrLog, startedPub, callVars>>
  /\ UNCHANGED userVars

\* accept loop: select { default: }, taken when nothing is sent on quit; the loop
\* then blocks in dispatcher.listener.Accept()
AccSelectDefault(r) ==
  /\ ~panicked
  /\ acc[r] = "select"
  /\ ~CloserWaiting(r)
  /\ acc' = [acc EXCEPT ![r] = "accept"]
  /\ UNCHANGED <<listener, mutex>>
  /\ UNCHANGED <<attVars, chanVars, envVars, histVars, srvVars>>
  /\ UNCHANGED <<pubVars, callVars>>
  /\ UNCHANGED userVars

\* the attendant NewServer's onDispatcherAcceptSuccess makes next
NextAttendant == CHOOSE a \in Att : ~created[a] /\ \A b \in Att : b < a => created[b]

\* accept loop: a peer connects, one of up to max, Accept() returns the
\* connection and onDispatcherAcceptSuccess makes an attendant over it and
\* starts it
AccAcceptOk(r, max) ==
  /\ ~panicked
  /\ acc[r] = "accept"
  /\ \E a \in 1..max : ~created[a]
  /\ LET a == NextAttendant IN
       /\ NewAttendant(a, defaultThrottle)
       /\ rl' = [rl EXCEPT ![a][1].pc = "check"]
  /\ acc' = [acc EXCEPT ![r] = "select"]
  /\ UNCHANGED <<listener, mutex>>
  /\ UNCHANGED <<chanVars, envVars, histVars, srvVars>>
  /\ cbLog' = [cbLog EXCEPT ![r] = Logged(@, "accept")]
  /\ UNCHANGED <<msgLog, thrLog, startedPub, callVars>>
  /\ UNCHANGED userVars

\* an accept loop that an Accept() error takes out of its loop: what C21 rules out
AccAcceptErrBreaks(r) ==
  /\ ~panicked
  /\ acc[r] = "accept"
  /\ acc' = [acc EXCEPT ![r] = "onStop"]
  /\ UNCHANGED <<listener, mutex>>
  /\ UNCHANGED <<attVars, chanVars, envVars, histVars, srvVars>>
  /\ cbLog' = [cbLog EXCEPT ![r] = Logged(@, "accept")]
  /\ UNCHANGED <<msgLog, thrLog, startedPub, callVars>>
  /\ UNCHANGED userVars

\* accept loop: Accept() returns an error
AccAcceptErr(r) ==
  /\ ~panicked
  /\ acc[r] = "accept"
  /\ acc' = [acc EXCEPT ![r] = "sendAcceptFailed"]
  /\ UNCHANGED <<listener, mutex>>
  /\ UNCHANGED <<attVars, chanVars, envVars, histVars, srvVars>>
  /\ cbLog' = [cbLog EXCEPT ![r] = Logged(@, "accept")]
  /\ UNCHANGED <<msgLog, thrLog, startedPub, callVars>>
  /\ UNCHANGED userVars

\* onDispatcherAcceptError: basicServer.acceptFailedEvent <- err
AccSendAcceptFailed(r) ==
  /\ ~panicked
  /\ acc[r] = "sendAcceptFailed"
  /\ LifeCanSend(acceptFailedQ)
  /\ acceptFailedQ' = Append(acceptFailedQ, r)
  /\ acc' = [acc EXCEPT ![r] = "select"]
  /\ UNCHANGED <<listener, mutex>>
  /\ UNCHANGED <<closer, defaultThrottle, attendants, quitClosed, fan, runs, stopper,
                 startedQ, attStartedQ, attStoppedQ, stoppedQ, lifeCap, panicked>>
  /\ UNCHANGED <<attVars, chanVars, envVars, histVars>>
  /\ UNCHANGED <<pubVars, callVars>>
  /\ UNCHANGED userVars

\* accept loop, after the loop: dispatcher.onStop, which is NewServer's
\* onDispatcherStop up to its send: close(quit), a panic when quit is closed
AccOnStop(r) ==
  /\ ~panicked
  /\ acc[r] = "onStop"
  /\ IF quitClosed
     THEN panicked' = TRUE /\ UNCHANGED <<acc, quitClosed>>
     ELSE /\ quitClosed' = TRUE
          /\ acc' = [acc EXCEPT ![r] = "sendStopped"]
          /\ UNCHANGED panicked
  /\ UNCHANGED <<listener, mutex>>
  /\ UNCHANGED <<closer, defaultThrottle, attendants, fan, runs, stopper,
                 startedQ, acceptFailedQ, attStartedQ, attStoppedQ, stoppedQ, lifeCap>>
  /\ UNCHANGED <<attVars, chanVars, envVars, histVars>>
  /\ cbLog' = [cbLog EXCEPT ![r] = Logged(@, "stop")]
  /\ UNCHANGED <<msgLog, thrLog, startedPub, callVars>>
  /\ UNCHANGED userVars

\* onDispatcherStop: basicServer.stoppedEvent <- BasicServerStoppedEvent(1)
AccSendStopped(r) ==
  /\ ~panicked
  /\ acc[r] = "sendStopped"
  /\ LifeCanSend(stoppedQ)
  /\ stoppedQ' = Append(stoppedQ, r)
  /\ acc' = [acc EXCEPT ![r] = "teardown"]
  /\ UNCHANGED <<listener, mutex>>
  /\ UNCHANGED <<closer, defaultThrottle, attendants, quitClosed, fan, runs, stopper,
                 startedQ, acceptFailedQ, attStartedQ, attStoppedQ, lifeCap, panicked>>
  /\ UNCHANGED <<attVars, chanVars, envVars, histVars>>
  /\ cbLog' = [cbLog EXCEPT ![r] = Logged(@, "event")]
  /\ UNCHANGED <<msgLog, thrLog, startedPub, callVars>>
  /\ UNCHANGED userVars

\* an accept loop that closes and clears the listener before it invokes the stop
\* callback: what C20 rules out
AccTeardownEarly(r) ==
  /\ ~panicked
  /\ acc[r] = "onStop"
  /\ listener' = "nil"
  /\ openListeners' = IF listener = "bound" THEN openListeners - 1 ELSE openListeners
  /\ acc' = [acc EXCEPT ![r] = "done"]
  /\ cbLog' = [cbLog EXCEPT ![r] = Logged(@, "close")]
  /\ UNCHANGED mutex
  /\ UNCHANGED <<attVars, chanVars, envVars, histVars, srvVars>>
  /\ UNCHANGED <<msgLog, thrLog, startedPub, runner, addrCall>>
  /\ UNCHANGED userVars

\* accept loop, last: dispatcher.listener.Close(), which closes the listener
\* the field holds and fails on a nil one, and dispatcher.listener = nil
AccTeardown(r) ==
  /\ ~panicked
  /\ acc[r] = "teardown"
  /\ listener' = "nil"
  /\ openListeners' = IF listener = "bound" THEN openListeners - 1 ELSE openListeners
  /\ acc' = [acc EXCEPT ![r] = "done"]
  /\ cbLog' = [cbLog EXCEPT ![r] = Logged(@, "close")]
  /\ UNCHANGED mutex
  /\ UNCHANGED <<attVars, chanVars, envVars, histVars, srvVars>>
  /\ UNCHANGED <<msgLog, thrLog, startedPub, runner, addrCall>>
  /\ UNCHANGED userVars

(* -------------------------------- Server ------------------------------- *)

\* a fan-in goroutine that forgets the attendant: what C16 rules out
InsertedNowhere(set, a) == set

\* basicServer.attendants[event.Attendant] = true
Inserted(set, a) == set \cup {a}

\* delete(basicServer.attendants, event.Attendant)
Deleted(set, a) == set \ {a}

\* fan-in goroutine: case event := <-attendantStartedEvent, a joint step with the
\* read loop that sends it, and basicServer.attendants[event.Attendant] = true
FanRecvStarted(r, a, g) ==
  /\ ~panicked
  /\ fan[r].pc = "select"
  /\ EmitStarted(a, g)
  /\ attendants' = Inserted(attendants, a)
  /\ fan' = [fan EXCEPT ![r] = [pc |-> "pubStarted", ev |-> [att |-> a]]]
  /\ UNCHANGED <<created, status, conn, throttle, throttleFrom>>
  /\ UNCHANGED <<stoppedLog, localStop, thrConst, lastAdmit, enabling>>
  /\ UNCHANGED <<closer, defaultThrottle, quitClosed, runs, stopper,
                 startedQ, acceptFailedQ, attStartedQ, attStoppedQ, stoppedQ, lifeCap, panicked>>
  /\ UNCHANGED <<chanVars, envVars, dispVars>>
  /\ UNCHANGED <<pubVars, callVars>>
  /\ UNCHANGED userVars

\* fan-in goroutine: basicServer.attendantStartedEvent <- event
FanPubStarted(r) ==
  /\ ~panicked
  /\ fan[r].pc = "pubStarted"
  /\ LifeCanSend(attStartedQ)
  /\ attStartedQ' = Append(attStartedQ, fan[r].ev)
  /\ fan' = [fan EXCEPT ![r] = [pc |-> "select", ev |-> <<>>]]
  /\ UNCHANGED <<closer, defaultThrottle, attendants, quitClosed, runs, stopper,
                 startedQ, acceptFailedQ, attStoppedQ, stoppedQ, lifeCap, panicked>>
  /\ UNCHANGED <<attVars, chanVars, envVars, histVars, dispVars>>
  /\ startedPub' = startedPub \cup {fan[r].ev.att}
  /\ UNCHANGED <<msgLog, thrLog, cbLog, callVars>>
  /\ UNCHANGED userVars

\* fan-in goroutine: case event := <-attendantStoppedEvent, a joint step with the
\* read loop that sends it, and delete(basicServer.attendants, event.Attendant)
FanRecvStopped(r, a, g) ==
  /\ ~panicked
  /\ fan[r].pc = "select"
  /\ EmitStopped(a, g)
  /\ attendants' = Deleted(attendants, a)
  /\ fan' = [fan EXCEPT ![r] = [pc |-> "pubStopped", ev |-> StoppedEventOf(a, g)]]
  /\ UNCHANGED <<created, status, conn, throttle, throttleFrom>>
  /\ UNCHANGED <<startedLog, localStop, thrConst, lastAdmit, enabling>>
  /\ UNCHANGED <<closer, defaultThrottle, quitClosed, runs, stopper,
                 startedQ, acceptFailedQ, attStartedQ, attStoppedQ, stoppedQ, lifeCap, panicked>>
  /\ UNCHANGED <<chanVars, envVars, dispVars>>
  /\ UNCHANGED <<pubVars, callVars>>
  /\ UNCHANGED userVars

\* fan-in goroutine: basicServer.attendantStoppedEvent <- event
FanPubStopped(r) ==
  /\ ~panicked
  /\ fan[r].pc = "pubStopped"
  /\ LifeCanSend(attStoppedQ)
  /\ attStoppedQ' = Append(attStoppedQ, fan[r].ev)
  /\ fan' = [fan EXCEPT ![r] = [pc |-> "select", ev |-> <<>>]]
  /\ UNCHANGED <<closer, defaultThrottle, attendants, quitClosed, runs, stopper,
                 startedQ, acceptFailedQ, attStartedQ, stoppedQ, lifeCap, panicked>>
  /\ UNCHANGED <<attVars, chanVars, envVars, histVars, dispVars>>
  /\ UNCHANGED <<pubVars, callVars>>
  /\ UNCHANGED userVars

\* fan-in goroutine: case <-quit: break Loop, ready once quit is closed
FanQuit(r) ==
  /\ ~panicked
  /\ fan[r].pc = "select"
  /\ quitClosed
  /\ fan' = [fan EXCEPT ![r] = [pc |-> "done", ev |-> <<>>]]
  /\ UNCHANGED <<closer, defaultThrottle, attendants, quitClosed, runs, stopper,
                 startedQ, acceptFailedQ, attStartedQ, attStoppedQ, stoppedQ, lifeCap, panicked>>
  /\ UNCHANGED <<attVars, chanVars, envVars, histVars, dispVars>>
  /\ UNCHANGED <<pubVars, callVars>>
  /\ UNCHANGED userVars

\* BasicServer.Stop with no closer retained: if basicServer.closer == nil
ServerStopNotListening ==
  /\ ~panicked
  /\ stopper.pc = "idle"
  /\ closer = 0
  /\ stopper' = [stopper EXCEPT !.pc = "notListening"]
  /\ UNCHANGED <<closer, defaultThrottle, attendants, quitClosed, fan, runs,
                 startedQ, acceptFailedQ, attStartedQ, attStoppedQ, stoppedQ, lifeCap, panicked>>
  /\ UNCHANGED <<attVars, chanVars, envVars, histVars, dispVars>>
  /\ UNCHANGED <<pubVars, callVars>>
  /\ UNCHANGED userVars

\* BasicServer.Stop with no closer retained: return DispatcherNotListeningError(true)
ServerStopReturns ==
  /\ stopper.pc = "notListening"
  /\ stopper' = Idle
  /\ UNCHANGED <<closer, defaultThrottle, attendants, quitClosed, fan, runs,
                 startedQ, acceptFailedQ, attStartedQ, attStoppedQ, stoppedQ, lifeCap, panicked>>
  /\ UNCHANGED <<attVars, chanVars, envVars, histVars, dispVars>>
  /\ UNCHANGED <<pubVars, callVars>>
  /\ UNCHANGED userVars

\* a Stop that calls the closer whether one is retained or not: what C23 rules out
ServerStopBeginAnyway ==
  /\ ~panicked
  /\ stopper.pc = "idle"
  /\ stopper' = [stopper EXCEPT !.pc = "closer", !.run = closer]
  /\ UNCHANGED <<closer, defaultThrottle, attendants, quitClosed, fan, runs,
                 startedQ, acceptFailedQ, attStartedQ, attStoppedQ, stoppedQ, lifeCap, panicked>>
  /\ UNCHANGED <<attVars, chanVars, envVars, histVars, dispVars>>
  /\ UNCHANGED <<pubVars, callVars>>
  /\ UNCHANGED userVars

\* BasicServer.Stop: basicServer.closer() is called and blocks in quit <- 1
ServerStopBegin ==
  /\ ~panicked
  /\ stopper.pc = "idle"
  /\ closer # 0
  /\ stopper' = [stopper EXCEPT !.pc = "closer", !.run = closer]
  /\ UNCHANGED <<closer, defaultThrottle, attendants, quitClosed, fan, runs,
                 startedQ, acceptFailedQ, attStartedQ, attStoppedQ, stoppedQ, lifeCap, panicked>>
  /\ UNCHANGED <<attVars, chanVars, envVars, histVars, dispVars>>
  /\ UNCHANGED <<pubVars, callVars>>
  /\ UNCHANGED userVars

\* BasicServer.Stop, inside Enumerate: attendant.Stop() on an attendant of the set
\* not visited yet
ServerStopVisit(a) ==
  /\ ~panicked
  /\ stopper.pc = "enumerate"
  /\ a \in attendants \ stopper.visited
  /\ StopCall(a)
  /\ stopper' = [stopper EXCEPT !.visited = @ \cup {a}]
  /\ UNCHANGED <<created, status, throttle, throttleFrom, rl>>
  /\ UNCHANGED <<startedLog, stoppedLog, thrConst, lastAdmit, enabling>>
  /\ UNCHANGED <<closer, defaultThrottle, attendants, quitClosed, fan, runs,
                 startedQ, acceptFailedQ, attStartedQ, attStoppedQ, stoppedQ, lifeCap, panicked>>
  /\ UNCHANGED <<chanVars, envVars, dispVars>>
  /\ UNCHANGED <<pubVars, callVars>>
  /\ UNCHANGED userVars

\* BasicServer.Stop, after Enumerate visited every attendant that was in the set
\* when it began and still is: basicServer.attendants = Attendants{} and
\* basicServer.closer = nil
ServerStopClear ==
  /\ ~panicked
  /\ stopper.pc = "enumerate"
  /\ (stopper.snap \cap attendants) \subseteq stopper.visited
  /\ attendants' = {}
  /\ closer' = 0
  /\ stopper' = Idle
  /\ UNCHANGED <<defaultThrottle, quitClosed, fan, runs,
                 startedQ, acceptFailedQ, attStartedQ, attStoppedQ, stoppedQ, lifeCap, panicked>>
  /\ UNCHANGED <<attVars, chanVars, envVars, histVars, dispVars>>
  /\ UNCHANGED <<pubVars, callVars>>
  /\ UNCHANGED userVars

\* the consumer takes the next event of a lifecycle channel of the server
ConsumeStarted ==
  /\ startedQ # <<>>
  /\ startedQ' = Tail(startedQ)
  /\ UNCHANGED <<closer, defaultThrottle, attendants, quitClosed, fan, runs, stopper,
                 acceptFailedQ, attStartedQ, attStoppedQ, stoppedQ, lifeCap, panicked>>
  /\ UNCHANGED <<attVars, chanVars, envVars, histVars, dispVars>>
  /\ UNCHANGED <<pubVars, callVars>>
  /\ UNCHANGED userVars

ConsumeAcceptFailed ==
  /\ acceptFailedQ # <<>>
  /\ acceptFailedQ' = Tail(acceptFailedQ)
  /\ UNCHANGED <<closer, defaultThrottle, attendants, quitClosed, fan, runs, stopper,
                 startedQ, attStartedQ, attStoppedQ, stoppedQ, lifeCap, panicked>>
  /\ UNCHANGED <<attVars, chanVars, envVars, histVars, dispVars>>
  /\ UNCHANGED <<pubVars, callVars>>
  /\ UNCHANGED userVars

ConsumeAttendantStarted ==
  /\ attStartedQ # <<>>
  /\ attStartedQ' = Tail(attStartedQ)
  /\ UNCHANGED <<closer, defaultThrottle, attendants, quitClosed, fan, runs, stopper,
                 startedQ, acceptFailedQ, attStoppedQ, stoppedQ, lifeCap, panicked>>
  /\ UNCHANGED <<attVars, chanVars, envVars, histVars, dispVars>>
  /\ UNCHANGED <<pubVars, callVars>>
  /\ UNCHANGED userVars

ConsumeAttendantStopped ==
  /\ attStoppedQ # <<>>
  /\ attStoppedQ' = Tail(attStoppedQ)
  /\ UNCHANGED <<closer, defaultThrottle, attendants, quitClosed, fan, runs, stopper,
                 startedQ, acceptFailedQ, attStartedQ, stoppedQ, lifeCap, panicked>>
  /\ UNCHANGED <<attVars, chanVars, envVars, histVars, dispVars>>
  /\ UNCHANGED <<pubVars, callVars>>
  /\ UNCHANGED userVars

ConsumeStopped ==
  /\ stoppedQ # <<>>
  /\ stoppedQ' = Tail(stoppedQ)
  /\ UNCHANGED <<closer, defaultThrottle, attendants, quitClosed, fan, runs, stopper,
                 startedQ, acceptFailedQ, attStartedQ, attStoppedQ, lifeCap, panicked>>
  /\ UNCHANGED <<attVars, chanVars, envVars, histVars, dispVars>>
  /\ UNCHANGED <<pubVars, callVars>>
  /\ UNCHANGED userVars

(* ------------------------------- the funnel --------------------------- *)

\* the channel of the server that carries the events of kind k
ChannelOf(k) ==
  CASE k = "Started" -> startedQ
    [] k = "AcceptFailed" -> acceptFailedQ
    [] k = "Stopped" -> stoppedQ
    [] k = "AttendantStarted" -> attStartedQ
    [] k = "MessageArrived" -> messageEvent
    [] k = "MessageThrottled" -> throttledEvent
    [] k = "AttendantStopped" -> attStoppedQ

\* ServerFunnel(server, funnel): go func(basicServer *BasicServer) {...}(server),
\* called once for the server
ServerFunnel ==
  /\ funnel.pc = "none"
  /\ funnel' = [pc |-> "select", kind |-> "none"]
  /\ UNCHANGED <<context, sendCall, handled, inHandler, sizesAsked>>
  /\ UNCHANGED <<attVars, chanVars, envVars, histVars, dispVars, srvVars>>
  /\ UNCHANGED <<pubVars, callVars>>

\* the receives of the funnel's select, on the channel of kind k
FunnelTakes(k) ==
  /\ ChannelOf(k) # <<>>
  /\ startedQ' = IF k = "Started" THEN Tail(startedQ) ELSE startedQ
  /\ acceptFailedQ' = IF k = "AcceptFailed" THEN Tail(acceptFailedQ) ELSE acceptFailedQ
  /\ stoppedQ' = IF k = "Stopped" THEN Tail(stoppedQ) ELSE stoppedQ
  /\ attStartedQ' = IF k = "AttendantStarted" THEN Tail(attStartedQ) ELSE attStartedQ
  /\ attStoppedQ' = IF k = "AttendantStopped" THEN Tail(attStoppedQ) ELSE attStoppedQ
  /\ messageEvent' = IF k = "MessageArrived" THEN Tail(messageEvent) ELSE messageEvent
  /\ throttledEvent' = IF k = "MessageThrottled" THEN Tail(throttledEvent) ELSE throttledEvent
  /\ msgLog' = IF k = "MessageArrived" THEN Taken(msgLog, Head(messageEvent)) ELSE msgLog
  /\ thrLog' = IF k = "MessageThrottled" THEN Taken(thrLog, Head(throttledEvent)) ELSE thrLog
  /\ UNCHANGED <<closer, defaultThrottle, attendants, quitClosed, fan, runs, stopper,
                 lifeCap, panicked>>
  /\ UNCHANGED <<attVars, actCap, envVars, histVars, dispVars>>
  /\ UNCHANGED <<startedPub, cbLog, callVars>>
  /\ UNCHANGED <<context, sendCall, sizesAsked>>

\* a funnel that runs each handler in a goroutine of its own and goes back to its
\* select at once: what C24 rules out
FunnelRecvAsync(k) ==
  /\ funnel.pc = "select"
  /\ FunnelTakes(k)
  /\ funnel' = [pc |-> IF k = "Stopped" THEN "done" ELSE "select", kind |-> "none"]
  /\ handled' = [handled EXCEPT ![k] = @ + 1]
  /\ inHandler' = inHandler + 1

\* funnel goroutine: select { case event := <-basicServer.XEvent(): }, one of the
\* cases that are ready, and the handler method of that kind is invoked
FunnelRecv(k) ==
  /\ funnel.pc = "select"
  /\ FunnelTakes(k)
  /\ funnel' = [pc |-> "handler", kind |-> k]
  /\ handled' = [handled EXCEPT ![k] = @ + 1]
  /\ inHandler' = inHandler + 1

\* funnel goroutine: the handler method returns; after funnel.Stopped, break Loop
FunnelReturn ==
  /\ funnel.pc = "handler"
  /\ funnel' = [pc |-> IF funnel.kind = "Stopped" THEN "done" ELSE "select", kind |-> "none"]
  /\ inHandler' = inHandler - 1
  /\ UNCHANGED <<context, sendCall, handled, sizesAsked>>
  /\ UNCHANGED <<attVars, chanVars, envVars, histVars, dispVars, srvVars>>
  /\ UNCHANGED <<pubVars, callVars>>

\* a buffer size that is used as it was asked
ActivityCapacityAsAsked(n) == n

\* NewServer(factory, activityBufferSize, lifecycleBufferSize, defaultThrottle):
\* the floors of the buffer sizes
ActivityCapacity(n) == IF n < ActivityFloor THEN ActivityFloor ELSE n
LifecycleCapacity(n) == IF n < LifecycleFloor THEN LifecycleFloor ELSE n

\* the state NewServer(factory, m, n, d) leaves
NewServer(m, n, d) ==
  /\ NoServer
  /\ NoAttendants
  /\ actCap = ActivityCapacity(m)
  /\ lifeCap = LifecycleCapacity(n)
  /\ defaultThrottle = d

\* a server made with no default throttle, as in the README's
\* NewServer(&json.JSONMessageMarshaler{}, 1024, 1, 0)
Init == \E m \in 0..MaxBuf, n \in 0..MaxLifeBuf : NewServer(m, n, 0) /\ sizesAsked = <<>>

\* the steps of the server's own goroutines
ServerRuns ==
  \/ \E r \in Runs : AccOnStart(r)
  \/ \E r \in Runs : AccSendStarted(r)
  \/ \E r \in Runs : AccSelectQuit(r)
  \/ \E r \in Runs : AccSelectDefault(r)
  \/ \E r \in Runs : AccSendAcceptFailed(r)
  \/ \E r \in Runs : AccOnStop(r)
  \/ \E r \in Runs : AccSendStopped(r)
  \/ \E r \in Runs : AccTeardown(r)
  \/ \E r \in Runs, a \in Att, g \in Gor : FanRecvStarted(r, a, g)
  \/ \E r \in Runs : FanPubStarted(r)
  \/ \E r \in Runs, a \in Att, g \in Gor : FanRecvStopped(r, a, g)
  \/ \E r \in Runs : FanPubStopped(r)
  \/ \E r \in Runs : FanQuit(r)
  \/ \E a \in Att : ServerStopVisit(a)
  \/ ServerStopClear

\* the steps of the read loops of the server's attendants; with no throttle set
\* no read loop ever has a message for the Throttled channel
AttendantRuns ==
  \/ \E a \in Att, g \in Gor : RLCheck(a, g)
  \/ \E a \in Att, g \in Gor : RLSetRunning(a, g)
  \/ \E a \in Att, g \in Gor : RLReceiveError(a, g)
  \/ \E a \in Att, g \in Gor : RLReceiveMessage(a, g)
  \/ \E a \in Att, g \in Gor : RLSendMessage(a, g)
  \/ \E a \in Att, g \in Gor : RLFinish(a, g)

\* the consumer of the server's seven channels
ConsumerRuns ==
  \/ ConsumeStarted
  \/ ConsumeAcceptFailed
  \/ ConsumeAttendantStarted
  \/ ConsumeAttendantStopped
  \/ ConsumeStopped
  \/ ConsumeMessage

\* what the user of the server and the peers do
EnvironmentRuns ==
  \/ RunAlreadyListening
  \/ RunFails
  \/ RunOk(LifeRuns)
  \/ ServerStopNotListening
  \/ ServerStopReturns
  \/ ServerStopBegin
  \/ \E r \in Runs : AccAcceptOk(r, LifeConns)
  \/ \E r \in Runs : AccAcceptErr(r)
  \/ \E a \in Att : Stop(a)
  \/ \E a \in Att : PeerSend(a, MaxLifeMsgs)
  \/ \E a \in Att : PeerClose(a)
  \/ \E a \in Att : PeerBad(a)

Next == ServerRuns \/ AttendantRuns \/ ConsumerRuns \/ EnvironmentRuns

\* one server, its user, its peers and the consumer of its channels
Spec == Init /\ [][Next]_vars

\* every goroutine of the program that can take a step eventually takes one, and
\* the consumer keeps draining the channels; the user and the peers owe nothing
Fairness ==
  /\ \A r \in Runs :
       /\ WF_vars(AccOnStart(r)) /\ WF_vars(AccSendStarted(r))
       /\ WF_vars(AccSelectQuit(r)) /\ WF_vars(AccSelectDefault(r))
       /\ WF_vars(AccSendAcceptFailed(r)) /\ WF_vars(AccOnStop(r))
       /\ WF_vars(AccSendStopped(r)) /\ WF_vars(AccTeardown(r))
       /\ WF_vars(FanPubStarted(r)) /\ WF_vars(FanPubStopped(r))
       /\ WF_vars(FanQuit(r) \/ \E a \in Att, g \in Gor : FanRecvStarted(r, a, g) \/ FanRecvStopped(r, a, g))
  /\ \A a \in Att : WF_vars(ServerStopVisit(a))
  /\ WF_vars(ServerStopClear)
  /\ \A a \in Att, g \in Gor :
       /\ WF_vars(RLCheck(a, g)) /\ WF_vars(RLSetRunning(a, g))
       /\ WF_vars(RLReceiveError(a, g)) /\ WF_vars(RLReceiveMessage(a, g))
       /\ WF_vars(RLSendMessage(a, g)) /\ WF_vars(RLFinish(a, g))
  /\ WF_vars(ConsumeStarted) /\ WF_vars(ConsumeAcceptFailed)
  /\ WF_vars(ConsumeAttendantStarted) /\ WF_vars(ConsumeAttendantStopped)
  /\ WF_vars(ConsumeStopped) /\ WF_vars(ConsumeMessage)

FairSpec == Spec /\ Fairness

\* the Accept() errors reported so far, to the funnel or to the channel
AcceptErrsReported == handled["AcceptFailed"] + Len(acceptFailedQ)

\* a server with a funnel attached, which is the consumer of its seven channels:
\* the user runs the server and stops it, connections arrive, Accept() fails,
\* the peers write and close
NextFunnel ==
  \/ ServerFunnel
  \/ \E k \in Kinds : FunnelRecv(k)
  \/ FunnelReturn
  \/ RunOk(LifeRuns)
  \/ ServerStopBegin
  \/ \E r \in Runs : AccAcceptOk(r, LifeConns)
  \/ \E r \in Runs : AcceptErrsReported < MaxAcceptErrs /\ AccAcceptErr(r)
  \/ \E a \in Att : PeerSend(a, MaxLifeMsgs)
  \/ \E a \in Att : PeerClose(a)
  \/ ServerRuns
  \/ AttendantRuns

FunnelSpec == Init /\ [][NextFunnel]_vars

\* each goroutine of the server and of its attendants that can take a step
\* eventually takes one; the funnel's handlers return, and its select, which
\* chooses at random among the cases that are ready, eventually chooses a case
\* that is ready whenever the funnel is at its select
FunnelFairness ==
  /\ \A r \in Runs :
       /\ WF_vars(AccOnStart(r)) /\ WF_vars(AccSendStarted(r))
       /\ WF_vars(AccSelectQuit(r)) /\ WF_vars(AccSelectDefault(r))
       /\ WF_vars(AccSendAcceptFailed(r)) /\ WF_vars(AccOnStop(r))
       /\ WF_vars(AccSendStopped(r)) /\ WF_vars(AccTeardown(r))
       /\ WF_vars(FanPubStarted(r)) /\ WF_vars(FanPubStopped(r))
       /\ WF_vars(FanQuit(r) \/ \E a \in Att, g \in Gor : FanRecvStarted(r, a, g) \/ FanRecvStopped(r, a, g))
  /\ \A a \in Att : WF_vars(ServerStopVisit(a))
  /\ WF_vars(ServerStopClear)
  /\ \A a \in Att, g \in Gor :
       /\ WF_vars(RLCheck(a, g)) /\ WF_vars(RLSetRunning(a, g))
       /\ WF_vars(RLReceiveError(a, g)) /\ WF_vars(RLReceiveMessage(a, g))
       /\ WF_vars(RLSendMessage(a, g)) /\ WF_vars(RLFinish(a, g))
  /\ WF_vars(FunnelReturn)
  /\ \A k \in Kinds : SF_vars(FunnelRecv(k))

FairFunnelSpec == FunnelSpec /\ FunnelFairness

\* a server with a funnel attached to which no connection arrives: the user
\* runs the server and stops it, and Accept() fails
NextDrain ==
  \/ ServerFunnel
  \/ \E k \in Kinds : FunnelRecv(k)
  \/ FunnelReturn
  \/ RunOk(LifeRuns)
  \/ ServerStopBegin
  \/ ServerStopClear
  \/ \E r \in Runs : AccOnStart(r)
  \/ \E r \in Runs : AccSendStarted(r)
  \/ \E r \in Runs : AccSelectQuit(r)
  \/ \E r \in Runs : AccSelectDefault(r)
  \/ \E r \in Runs : AcceptErrsReported < MaxAcceptErrs /\ AccAcceptErr(r)
  \/ \E r \in Runs : AccSendAcceptFailed(r)
  \/ \E r \in Runs : AccOnStop(r)
  \/ \E r \in Runs : AccSendStopped(r)
  \/ \E r \in Runs : AccTeardown(r)
  \/ \E r \in Runs : FanQuit(r)

DrainSpec == Init /\ [][NextDrain]_vars

\* what the user of a server that is run, stopped and run again does, and the peers
EnvironmentReruns ==
  \/ RunOk(RerunRuns)
  \/ ServerStopBegin
  \/ \E r \in Runs : AccAcceptOk(r, RerunConns)
  \/ \E r \in Runs : AccAcceptErr(r)
  \/ \E a \in Att : PeerSend(a, MaxLifeMsgs)
  \/ \E a \in Att : PeerClose(a)

NextRerun == ServerRuns \/ AttendantRuns \/ ConsumerRuns \/ EnvironmentReruns

\* one server that its user runs and stops several times in a row
RerunSpec == Init /\ [][NextRerun]_vars

\* a server that is run once and not stopped: connections arrive and the peers
\* end them
NextServe ==
  \/ RunOk(LifeRuns)
  \/ \E r \in Runs : AccOnStart(r)
  \/ \E r \in Runs : AccSendStarted(r)
  \/ \E r \in Runs : AccSelectDefault(r)
  \/ \E r \in Runs : AccAcceptOk(r, ServeConns)
  \/ \E a \in Att, g \in Gor : RLCheck(a, g)
  \/ \E a \in Att, g \in Gor : RLSetRunning(a, g)
  \/ \E a \in Att, g \in Gor : RLReceiveError(a, g)
  \/ \E a \in Att, g \in Gor : RLFinish(a, g)
  \/ \E r \in Runs, a \in Att, g \in Gor : FanRecvStarted(r, a, g)
  \/ \E r \in Runs : FanPubStarted(r)
  \/ \E r \in Runs, a \in Att, g \in Gor : FanRecvStopped(r, a, g)
  \/ \E r \in Runs : FanPubStopped(r)
  \/ ConsumeStarted
  \/ ConsumeAttendantStarted
  \/ ConsumeAttendantStopped
  \/ \E a \in Att : PeerClose(a)

ServeSpec == Init /\ [][NextServe]_vars

\* the steps of the accept-loop goroutine of run r while the server runs
AccLoopSteps(r) == AccOnStart(r) \/ AccSendStarted(r) \/ AccSelectDefault(r)

\* the steps of the fan-in goroutine of run r while the server runs
FanSteps(r) ==
  \/ FanPubStarted(r)
  \/ FanPubStopped(r)
  \/ \E a \in Att, g \in Gor : FanRecvStarted(r, a, g) \/ FanRecvStopped(r, a, g)

\* the steps the read loop of a server's attendant takes by itself
ReadLoopSteps(a) ==
  \E g \in Gor : RLCheck(a, g) \/ RLSetRunning(a, g) \/ RLReceiveError(a, g) \/ RLFinish(a, g)

\* each goroutine of the running server that can take a step eventually takes
\* one, and the consumer keeps draining each channel; the peers owe nothing
ServeFairness ==
  /\ \A r \in Runs : WF_vars(AccLoopSteps(r)) /\ WF_vars(FanSteps(r))
  /\ \A a \in Att : WF_vars(ReadLoopSteps(a))
  /\ WF_vars(ConsumeStarted)
  /\ WF_vars(ConsumeAttendantStarted) /\ WF_vars(ConsumeAttendantStopped)

FairServeSpec == ServeSpec /\ ServeFairness

\* the dispatcher of a server whose Run is called from several goroutines and
\* whose Addr is called at any moment; the server is stopped; no connection
\* arrives
NextDispatcher ==
  \/ \E c \in Callers : RunCheck(c)
  \/ \E c \in Callers : RunLock(c)
  \/ \E c \in Callers : RunListenFails(c)
  \/ \E c \in Callers : RunListenOk(c)
  \/ \E c \in Callers : RunUnlock(c)
  \/ \E c \in Callers : RunLaunch(c)
  \/ AddrCheck
  \/ AddrRead
  \/ \E r \in Runs : AccOnStart(r)
  \/ \E r \in Runs : AccSendStarted(r)
  \/ \E r \in Runs : AccSelectQuit(r)
  \/ \E r \in Runs : AccSelectDefault(r)
  \/ \E r \in Runs : AccAcceptErr(r)
  \/ \E r \in Runs : AccSendAcceptFailed(r)
  \/ \E r \in Runs : AccOnStop(r)
  \/ \E r \in Runs : AccSendStopped(r)
  \/ \E r \in Runs : AccTeardown(r)
  \/ \E r \in Runs : FanQuit(r)
  \/ ServerStopBegin
  \/ ServerStopClear
  \/ ConsumeStarted
  \/ ConsumeAcceptFailed
  \/ ConsumeStopped

DispatcherSpec == Init /\ [][NextDispatcher]_vars

\* the accept-loop goroutines of a server that is run and stopped several times
\* in a row, seen from the dispatcher: connections arrive and Accept() fails,
\* the callbacks are those of NewServer; the read loops of the attendants made,
\* which touch nothing of the dispatcher, take no step
NextLoop ==
  \/ RunOk(RerunRuns)
  \/ ServerStopBegin
  \/ ServerStopClear
  \/ \E r \in Runs : AccOnStart(r)
  \/ \E r \in Runs : AccSendStarted(r)
  \/ \E r \in Runs : AccSelectQuit(r)
  \/ \E r \in Runs : AccSelectDefault(r)
  \/ \E r \in Runs : AccAcceptOk(r, NAtt)
  \/ \E r \in Runs : AccAcceptErr(r)
  \/ \E r \in Runs : AccSendAcceptFailed(r)
  \/ \E r \in Runs : AccOnStop(r)
  \/ \E r \in Runs : AccSendStopped(r)
  \/ \E r \in Runs : AccTeardown(r)
  \/ \E r \in Runs : FanQuit(r)
  \/ ConsumeStarted
  \/ ConsumeAcceptFailed
  \/ ConsumeStopped

LoopSpec == Init /\ [][NextLoop]_vars

\* a server whose user calls Run, which can fail, and Stop at any moment, whether
\* the server runs or not
NextStop ==
  \/ RunFails
  \/ ServerStopNotListening
  \/ ServerStopReturns
  \/ NextLoop

StopSpec == Init /\ [][NextStop]_vars

\* buffer sizes below, at and above the floors
ActivitySizes == {0, ActivityFloor - 1, ActivityFloor, ActivityFloor + MaxBuf}
LifecycleSizes == 0 .. LifecycleFloor + MaxLifeBuf

\* enough messages to fill the largest Message channel and leave one more
MaxSizeMsgs == ActivityFloor + MaxBuf + 1

\* NewServer(factory, m, n, 0) for every pair of sizes
InitSizes == \E m \in ActivitySizes, n \in LifecycleSizes : NewServer(m, n, 0) /\ sizesAsked = <<m, n>>

\* a server that is run and whose channels nobody receives from: connections
\* arrive, Accept() fails and the peer of the first connection writes, until
\* the goroutines of the server block on its full channels
NextSizes ==
  \/ RunOk(LifeRuns)
  \/ \E r \in Runs : AccOnStart(r)
  \/ \E r \in Runs : AccSendStarted(r)
  \/ \E r \in Runs : AccSelectDefault(r)
  \/ \E r \in Runs : AccAcceptOk(r, LifeConns)
  \/ \E r \in Runs : AccAcceptErr(r)
  \/ \E r \in Runs : AccSendAcceptFailed(r)
  \/ \E r \in Runs, a \in Att, g \in Gor : FanRecvStarted(r, a, g)
  \/ \E r \in Runs : FanPubStarted(r)
  \/ \E a \in Att, g \in Gor : RLCheck(a, g)
  \/ \E a \in Att, g \in Gor : RLSetRunning(a, g)
  \/ \E a \in Att, g \in Gor : RLReceiveMessage(a, g)
  \/ \E a \in Att, g \in Gor : RLSendMessage(a, g)
  \/ PeerSend(1, MaxSizeMsgs)

SizesSpec == InitSizes /\ [][NextSizes]_vars

(* ------------------------------- claims -------------------------------- *)

\* the connection of attendant a has terminated: closed on this side, or ended or
\* broken by the peer
Terminated(a) == created[a] /\ (conn[a] = "closed" \/ remote[a] \in {"eof", "bad"})

\* the 'attendant stopped' event of a is in the server's AttendantStopped channel
StoppedPublished(a) == \E i \in DOMAIN attStoppedQ : attStoppedQ[i].att = a

\* a read loop of a has run to its end and none is left running
LoopExited(a) ==
  /\ \E g \in Gor : rl[a][g].pc = "done"
  /\ \A g \in Gor : rl[a][g].pc \in {"none", "returned", "done"}

\* C1: every attendant of a server whose connection terminates eventually has its
\* 'attendant stopped' event published on the server's AttendantStopped channel,
\* and its read loop exits, while the consumer keeps draining the channels.
C1_StoppedEventuallyPublished ==
  \A a \in Att : /\ (Terminated(a) /\ ~LoopExited(a)) ~> StoppedPublished(a)
                 /\ Terminated(a) ~> LoopExited(a)

\* C2: once the closer a successful Run returned is invoked, the call eventually
\* returns, the accept loop leaves its loop and the stop callback fires.
C2_CloserEventuallyReturns ==
  \A r \in Runs : CloserWaiting(r) ~> (~CloserWaiting(r) /\ acc[r] \in {"sendStopped", "teardown", "done"})

\* the read-loop goroutines of a that are past the status check
Looping(a) == {g \in Gor : rl[a][g].pc \in {"sendStarted", "receive", "lapse", "sendMessage",
                                            "sendThrottled", "finish", "sendStopped"}}

\* Start() calls on a that returned nil: each spawned one goroutine
StartsOk(a) == Cardinality({g \in Gor : rl[a][g].pc # "none"})

\* C3: for every attendant and every sequence of Start() calls on it, at most
\* one Start() returns success (every other one returns the 'not new' error).
C3_StartSucceedsOnce == \A a \in Att : StartsOk(a) <= 1

\* C4: a Stop() call on an attendant that is not Stopped closes the connection
\* and leaves the status Stopped when it returns; on a Stopped attendant it
\* changes nothing.
C4_StopSetsStopped ==
  [][\A a \in Att : Stop(a) =>
       IF status[a] # AttendantStopped
       THEN conn'[a] = "closed" /\ status'[a] = AttendantStopped
       ELSE UNCHANGED <<status, conn>>]_vars

\* C5: per attendant at most one read loop runs, at most one 'attendant
\* started' and at most one 'attendant stopped' event are emitted, and no
\* stopped event without a started event before it.
C5_OneLoopOneStartOneStop ==
  \A a \in Att :
    /\ Cardinality(Looping(a)) <= 1
    /\ startedLog[a] <= 1
    /\ Len(stoppedLog[a]) <= 1
    /\ Len(stoppedLog[a]) <= startedLog[a]

\* C6: the status of an attendant never goes from Stopped to Running or New,
\* nor from Running to New.
C6_StatusMonotonic ==
  [][\A a \in Att :
       /\ status[a] = AttendantStopped => status'[a] = AttendantStopped
       /\ status[a] = AttendantRunning => status'[a] # AttendantNew]_vars

\* C7: if a Stop() call returned success on a Running attendant, every stopped
\* event of that attendant carries stopType = Local and no error.
C7_StopOkMeansLocal ==
  \A a \in Att : localStop[a] =>
    \A i \in DOMAIN stoppedLog[a] :
      stoppedLog[a][i].stopType = AttendantLocalStop /\ stoppedLog[a][i].error = NoError

\* C8: every stopped event has the stop type Local when Receive()'s error was the
\* closed-connection error (whatever the graceful flag), else Remote when the
\* error was flagged graceful, else Abnormal; its Error is the underlying error
\* for Abnormal and nil otherwise; and the connection of an Abnormal stop is
\* closed when the event is handed over.
C8_StopClassification ==
  \A a \in Att : \A i \in DOMAIN stoppedLog[a] :
    LET e == stoppedLog[a][i] IN
      /\ e.cause # NoError
      /\ e.stopType = (IF e.cause = ErrClosed THEN AttendantLocalStop
                       ELSE IF e.graceful THEN AttendantRemoteStop
                       ELSE AttendantAbnormalStop)
      /\ e.error = (IF e.stopType = AttendantAbnormalStop THEN e.cause ELSE NoError)
      /\ e.stopType = AttendantAbnormalStop => e.closed

\* C8's case: an attendant has emitted an Abnormal stop, and a Local stop whose
\* closed-connection error came flagged graceful
C8_Witness ==
  \E a \in Att : \E i, j \in DOMAIN stoppedLog[a] :
    /\ stoppedLog[a][i].stopType = AttendantAbnormalStop /\ stoppedLog[a][i].error = ErrBad
    /\ stoppedLog[a][j].cause = ErrClosed /\ stoppedLog[a][j].graceful
    /\ stoppedLog[a][j].stopType = AttendantLocalStop

\* read loop g of a settles in this step where the message it received goes
Decides(a, g) ==
  /\ rl[a][g].pc \in {"receive", "lapse"}
  /\ rl'[a][g].pc \in {"sendMessage", "sendThrottled"}

\* the instant of the message read loop g of a is settling
Instant(a, g) == IF rl[a][g].pc = "lapse" THEN rl[a][g].now ELSE clock

\* C9: with the throttle T > 0 of the construction never changed, a message
\* received at instant t goes to Message if no message went to Message before
\* or t - (instant of the last message that went to Message) >= T, and to
\* Throttled otherwise.
C9_ThrottleAdmission ==
  [][\A a \in Att, g \in Gor :
       (Decides(a, g) /\ thrConst[a] /\ throttle[a] > 0) =>
         /\ rl'[a][g].pc = "sendMessage" <=>
              (lastAdmit[a] = ZeroTime \/ Instant(a, g) - lastAdmit[a] >= throttle[a])
         /\ rl'[a][g].pc = "sendThrottled" <=>
              (lastAdmit[a] # ZeroTime /\ Instant(a, g) - lastAdmit[a] < throttle[a])]_vars

\* C9's case: under a constant throttle the third message is on its way to
\* Message, the second one went to Throttled and the first to Message
C9_Witness ==
  \E a \in Att, g \in Gor :
    /\ thrConst[a] /\ throttle[a] > 0
    /\ rl[a][g].pc = "sendMessage" /\ rl[a][g].msg = 3 /\ rl[a][g].lapse >= throttle[a]
    /\ actCap > 0
    /\ \E i \in DOMAIN throttledEvent : throttledEvent[i].att = a /\ throttledEvent[i].msg = 2

\* C10, as claimed: the first message received after SetThrottle took the
\* throttle from 0 to a positive value goes to Message and sets throttleFrom to
\* its instant.
C10_FirstAfterEnableAdmitted ==
  [][\A a \in Att, g \in Gor :
       (Decides(a, g) /\ enabling[a] \in {"armed", "checking"}) =>
         rl'[a][g].pc = "sendMessage" /\ throttleFrom'[a] = Instant(a, g)]_vars

\* C10, amended: that message goes to Message and sets throttleFrom to its
\* instant if and only if throttleFrom is still the zero instant or at least the
\* throttle, as it is when the lapse is compared, has elapsed since throttleFrom;
\* otherwise it goes to Throttled and throttleFrom stays.
C10_FirstAfterEnableAmended ==
  [][\A a \in Att, g \in Gor :
       (Decides(a, g) /\ enabling[a] \in {"armed", "checking"}) =>
         IF throttleFrom[a] = ZeroTime \/ Instant(a, g) - throttleFrom[a] >= throttle[a]
         THEN rl'[a][g].pc = "sendMessage" /\ throttleFrom'[a] = Instant(a, g)
         ELSE rl'[a][g].pc = "sendThrottled" /\ throttleFrom'[a] = throttleFrom[a]]_vars

\* C10's case: the first message after a re-enabling SetThrottle was admitted
\* after the lapse since a message admitted under the earlier throttle was compared
C10_Witness ==
  \E a \in Att, g \in Gor :
    /\ enabling[a] = "admitted" /\ rl[a][g].pc = "sendMessage"
    /\ rl[a][g].now # ZeroTime /\ throttleFrom[a] = rl[a][g].now

\* the messages of attendant a that are in channel q, in order
InChannel(q, a) ==
  LET evs == SelectSeq(q, LAMBDA e : e.att = a) IN [i \in DOMAIN evs |-> evs[i].msg]

\* the messages of a placed on the Message channel so far, in order: those the
\* consumer took and those still in the channel
OnMessage(a) == msgLog[a] \o InChannel(messageEvent, a)

\* the messages of a placed on the Throttled channel so far, in order
OnThrottled(a) == thrLog[a] \o InChannel(throttledEvent, a)

\* the read loops of a that hold message m: received, not sent yet
Holding(a, m) == {g \in Gor : rl[a][g].pc \in {"lapse", "sendMessage", "sendThrottled"} /\ rl[a][g].msg = m}

\* how many times m occurs in the sequence of messages ms
Occurrences(ms, m) == Cardinality({i \in DOMAIN ms : ms[i] = m})

\* read loop g of a is blocked in a send on a full channel
BlockedSending(a, g) ==
  \/ rl[a][g].pc = "sendMessage" /\ ~CanSend(messageEvent)
  \/ rl[a][g].pc = "sendThrottled" /\ ~CanSend(throttledEvent)

\* C11: every message Receive() returned is held by the read loop or was placed
\* exactly once on exactly one of the Message and Throttled channels, none is
\* lost or duplicated; a message received with throttle = 0 goes to Message; the
\* send places the message on the channel the loop chose and on no other; and a
\* read loop blocked on a full channel does nothing and receives nothing.
C11_PublishedExactlyOnce ==
  /\ [](\A a \in Att :
         /\ \A m \in 1..recvd[a] :
              Occurrences(OnMessage(a), m) + Occurrences(OnThrottled(a), m)
                + Cardinality(Holding(a, m)) = 1
         /\ \A i \in DOMAIN OnMessage(a) : OnMessage(a)[i] \in 1..recvd[a]
         /\ \A i \in DOMAIN OnThrottled(a) : OnThrottled(a)[i] \in 1..recvd[a])
  /\ [][\A a \in Att, g \in Gor :
         /\ (Decides(a, g) /\ rl[a][g].pc = "receive" /\ throttle[a] = 0)
              => rl'[a][g].pc = "sendMessage"
         /\ (rl[a][g].pc = "sendMessage" /\ rl'[a][g].pc # "sendMessage")
              => /\ OnMessage(a)' = Append(OnMessage(a), rl[a][g].msg)
                 /\ OnThrottled(a)' = OnThrottled(a)
         /\ (rl[a][g].pc = "sendThrottled" /\ rl'[a][g].pc # "sendThrottled")
              => /\ OnThrottled(a)' = Append(OnThrottled(a), rl[a][g].msg)
                 /\ OnMessage(a)' = OnMessage(a)
         /\ BlockedSending(a, g) => (rl'[a][g] = rl[a][g] /\ recvd'[a] = recvd[a])]_vars

\* C11's case: the third message waits for room in the full Message channel,
\* which holds the first one, and the second one went to Throttled
C11_Witness ==
  \E a \in Att, g \in Gor :
    /\ rl[a][g].pc = "sendMessage" /\ rl[a][g].msg = 3 /\ BlockedSending(a, g)
    /\ InChannel(messageEvent, a) = <<1>>
    /\ OnThrottled(a) = <<2>>

\* the messages ms are in the order Receive() returned them
InOrder(ms) == \A i, j \in DOMAIN ms : i < j => ms[i] < ms[j]

\* C12: the messages of one attendant are placed on the Message channel in the
\* order they were received, and so are its messages on the Throttled channel.
C12_ChannelOrder == \A a \in Att : InOrder(OnMessage(a)) /\ InOrder(OnThrottled(a))

\* C13: for every attendant of a server, its 'attendant started' event is
\* placed on the server's AttendantStarted channel before any of its messages
\* is placed on the server's Message or Throttled channel.
C13_StartedBeforeMessages ==
  \A a \in Att : (OnMessage(a) # <<>> \/ OnThrottled(a) # <<>>) => a \in startedPub

\* BasicServer.Stop() has returned nil and no Run has succeeded since
StopReturned == runs > 0 /\ closer = 0 /\ stopper.pc \in {"idle", "notListening"}

\* C14: after Stop() has returned successfully and until the next Run, the set
\* Enumerate goes over is empty.
C14_EmptyAfterStop == StopReturned => attendants = {}

\* the Stopped events published for run r
StoppedEvents(r) == Occurrences(cbLog[r], "event")

\* the Stop() that followed Run r has returned nil
StopReturnedFor(r) == r < runs \/ (r = runs /\ StopReturned)

\* the accept-loop goroutine of run r is over: it returned, or a panic ended the
\* program
LoopOver(r) == acc[r] = "done" \/ panicked

\* C15: for each successful Run followed by a successful Stop exactly one
\* Stopped event is published: never two, none before the accept loop took the
\* quit signal of the stop, and one once the accept-loop goroutine is over.
C15_OneStoppedEvent ==
  \A r \in Runs :
    /\ StoppedEvents(r) <= 1
    /\ StoppedEvents(r) = 1 => Occurrences(cbLog[r], "quit") = 1
    /\ (StopReturnedFor(r) /\ LoopOver(r)) => StoppedEvents(r) = 1

\* the accept loop of run r is in its loop: the dispatcher has not reported stopped
Accepting(r) == acc[r] \in {"sendStarted", "select", "accept", "sendAcceptFailed"}

\* the fan-in goroutine of run r is alive
FanAlive(r) == fan[r].pc \in {"select", "pubStarted", "pubStopped"}

\* no call and no callback has panicked
NoPanic == ~panicked

\* C17: for every sequence of Run and Stop calls on one server no call and no
\* callback panics, and while the accept loop of a run is in its loop the fan-in
\* goroutine of that run is alive.
C17_RerunSafe == NoPanic /\ \A r \in Runs : Accepting(r) => FanAlive(r)

\* the attendants made for the connections accepted so far
Accepted == {a \in Att : created[a]}

\* C16: while a server is running and its channels are drained, once n
\* connections have been accepted and none of them has terminated, the set
\* Enumerate goes over eventually is the set of their n attendants, unless a
\* further connection is accepted or one terminates first; and once all of them
\* have terminated that set eventually is empty, unless a further connection is
\* accepted first.
C16_EnumerateFollows ==
  \A n \in 0..NAtt :
    /\ (Accepted = 1..n /\ \A a \in 1..n : ~Terminated(a))
          ~> (attendants = 1..n \/ Accepted # 1..n \/ \E a \in 1..n : Terminated(a))
    /\ (Accepted = 1..n /\ \A a \in 1..n : Terminated(a))
          ~> (attendants = {} \/ Accepted # 1..n)

\* C16's case: every connection that can be accepted was, none has terminated
\* and each of their attendants is in the set
C16_Witness ==
  /\ Accepted = 1..ServeConns /\ attendants = Accepted
  /\ \A a \in Accepted : ~Terminated(a)

\* the accept-loop goroutines that were launched and have not returned
RunningLoops == {r \in Runs : acc[r] \notin {"none", "done"}}

\* C18: a dispatcher has at most one bound listener and at most one running
\* accept loop, and a Run call that found a listener bound returned the 'already
\* listening' error, for Run calls issued from different goroutines.
C18_OneListenerOneLoop ==
  /\ openListeners <= 1
  /\ Cardinality(RunningLoops) <= 1
  /\ \A c \in Callers : runner[c].seen = "bound" => runner[c].result = "alreadyListening"

\* C19: a finished Addr() call returned the address with no error if it found a
\* listener bound, and the 'not listening' error if it found none.
C19_AddrResult ==
  (addrCall.pc = "idle" /\ addrCall.result # "none") =>
    addrCall.result = (IF addrCall.seen = "bound" THEN "addr" ELSE "notListening")

\* the sequence s is the beginning of the sequence t
IsPrefix(s, t) == Len(s) <= Len(t) /\ \A i \in DOMAIN s : s[i] = t[i]

\* what an accept-loop goroutine does, in the order of the code: the start
\* callback, accept callbacks if connections arrive or Accept() fails, the quit
\* signal, the stop callback, which sends the Stopped event, and the closing and
\* clearing of the listener
LoopOrder(log) ==
  \/ IsPrefix(log, <<"start", "accept", "quit", "stop", "event", "close">>)
  \/ IsPrefix(log, <<"start", "quit", "stop", "event", "close">>)

C21_AcceptErrorKeepsLoop ==
  [][\A r \in Runs :
       /\ (acc[r] = "accept" /\ acc'[r] # "accept")
            => acc'[r] \in {"select", "sendAcceptFailed"}
       /\ (acc[r] = "sendAcceptFailed" /\ acc'[r] # "sendAcceptFailed")
            => (acc'[r] = "select" /\ acceptFailedQ' = Append(acceptFailedQ, r))
       /\ (Accepting(r) /\ ~Accepting(r)')
            => (acc[r] = "select" /\ CloserWaiting(r) /\ ~CloserWaiting(r)')
       /\ Len(acceptFailedQ') > Len(acceptFailedQ)
            => \E q \in Runs : acc[q] = "sendAcceptFailed" /\ acc'[q] = "select"]_vars

\* C21's case: Accept() failed again while the event of an earlier failure is
\* still in the AcceptFailed channel, a connection was accepted, and the loop is
\* reporting the second failure
C21_Witness ==
  \E r \in Runs :
    /\ acc[r] = "sendAcceptFailed" /\ acceptFailedQ = <<r>>
    /\ created[1]

\* C22: a Send call that found the status Stopped returned the 'stopped' error
\* and did not call the marshaler; one that found any other status called the
\* marshaler and returned exactly what the marshaler's Send returned; and no
\* step of a Send call changes the attendant's status, throttle, throttleFrom
\* or context.
C22_SendDelegates ==
  /\ []((sendCall.pc = "idle" /\ sendCall.att # 0) =>
          IF sendCall.seen = AttendantStopped
          THEN sendCall.result = "stopped" /\ ~sendCall.marshaled
          ELSE sendCall.marshaled /\ sendCall.result = sendCall.returned)
  /\ [][sendCall' # sendCall =>
          UNCHANGED <<status, throttle, throttleFrom, context>>]_vars

\* C22's case: on an attendant that has a throttle and a value in its context, a
\* Send call found the status Running and returned the error of the marshaler,
\* and the attendant has stopped since
C22_Witness ==
  /\ sendCall.pc = "idle" /\ sendCall.att = 1 /\ sendCall.seen = AttendantRunning
  /\ sendCall.result = "writeError"
  /\ status[1] = AttendantStopped /\ throttle[1] > 0 /\ context[1]["user"] = "v1"

\* the variables of the server and of its attendants that a Stop() call does not
\* own: all but the position of the caller
BesidesStopper ==
  <<closer, attendants, quitClosed, fan, runs, startedQ, acceptFailedQ, attStartedQ,
    attStoppedQ, stoppedQ, panicked, attVars, chanVars, dispVars, pubVars>>

\* C23: a Stop() call made while no closer is retained takes the 'not listening'
\* branch and returns: it invokes no closer, stops no attendant and leaves the
\* attendant set and everything else as they are; a closer is retained by a
\* successful Run only, so none is before the first one and after a failed one;
\* and a Stop() that returns nil leaves no closer, so the Stop() call after it
\* fails.
C23_StopNotListening ==
  /\ [](stopper.pc = "notListening" => closer = 0)
  /\ [][/\ (closer = 0 /\ stopper' # stopper)
             => /\ \/ stopper.pc = "idle" /\ stopper' = [stopper EXCEPT !.pc = "notListening"]
                   \/ stopper.pc = "notListening" /\ stopper' = Idle
                /\ UNCHANGED BesidesStopper
        /\ (closer' # closer /\ closer' # 0) => runs' = runs + 1
        /\ (stopper.pc = "enumerate" /\ stopper'.pc = "idle") => closer' = 0]_vars

\* C23's case: after one Run and a Stop() that returned nil, a second Stop() call
\* has found no closer, while the accept loop of the run is still in its teardown
C23_Witness ==
  /\ stopper.pc = "notListening" /\ runs = 1
  /\ acc[1] = "teardown" /\ listener = "bound"

\* C24: with a funnel attached, at most one handler invocation is in progress at
\* any moment; the Stopped handler is invoked at most once, and exactly once
\* when the funnel goroutine has terminated; a handler is invoked by the funnel
\* goroutine at its select only, none after the Stopped handler was invoked; and
\* the funnel goroutine, once terminated, takes no step.
C24_FunnelSequential ==
  /\ [](/\ inHandler <= 1
        /\ handled["Stopped"] <= 1
        /\ funnel.pc = "done" => (handled["Stopped"] = 1 /\ inHandler = 0)
        /\ funnel.pc = "handler" <=> inHandler = 1)
  /\ [][/\ handled' # handled => (funnel.pc = "select" /\ handled["Stopped"] = 0)
        /\ funnel.pc = "done" => (funnel' = funnel /\ inHandler' = inHandler)]_vars

\* C24's case: the funnel has dispatched the Started event of a run, the event
\* of a failed Accept() and the Stopped event, and has terminated
C24_Witness ==
  /\ funnel.pc = "done"
  /\ handled["Started"] = 1 /\ handled["AcceptFailed"] = 1 /\ handled["Stopped"] = 1

\* a funnel is attached to the server
Attached == funnel.pc # "none"

\* a goroutine of the server is in a send on a full channel of the server
ProducerBlocked ==
  \/ \E r \in Runs : acc[r] = "sendStarted" /\ ~LifeCanSend(startedQ)
  \/ \E r \in Runs : acc[r] = "sendAcceptFailed" /\ ~LifeCanSend(acceptFailedQ)
  \/ \E r \in Runs : acc[r] = "sendStopped" /\ ~LifeCanSend(stoppedQ)
  \/ \E r \in Runs : fan[r].pc = "pubStarted" /\ ~LifeCanSend(attStartedQ)
  \/ \E r \in Runs : fan[r].pc = "pubStopped" /\ ~LifeCanSend(attStoppedQ)
  \/ \E a \in Att, g \in Gor : BlockedSending(a, g)

\* C25: with a funnel attached, an event that is in one of the seven channels of
\* the server is eventually received by the funnel, which invokes the handler
\* of its kind, and a goroutine blocked in a send on a full channel of the
\* server eventually is not.
C25_FunnelDrainsAll ==
  /\ \A k \in Kinds :
       (Attached /\ ChannelOf(k) # <<>>) ~> (funnel.pc = "handler" /\ funnel.kind = k)
  /\ (Attached /\ ProducerBlocked) ~> ~ProducerBlocked

\* C26: for every D > 0, SetThrottle(-D) and SetThrottle(D) lead from any state
\* to the same state, in which Throttle() is D, so that whatever follows (the
\* split of the later messages between Message and Throttled) is the same; an
\* attendant constructed with throttle -D is the attendant constructed with D;
\* the stored throttle is never negative
C26_NegativeThrottleSame ==
  /\ [](\A a \in Att : throttle[a] >= 0)
  /\ [][\A a \in Att, D \in 1..MaxThrottle :
          /\ SetThrottle(a, -D) <=> SetThrottle(a, D)
          /\ SetThrottle(a, -D) => throttle'[a] = D]_vars
  /\ \A D \in 1..MaxThrottle, b \in 0..MaxBuf :
       /\ NewClient(-D, b) <=> NewClient(D, b)
       /\ NewClient(-D, b) => throttle[1] = D

\* the throttle was changed to MaxThrottle by a SetThrottle call, and the
\* messages after it went to both channels
C26_Witness ==
  /\ ~thrConst[1]
  /\ throttle[1] = MaxThrottle
  /\ msgLog[1] # <<>>
  /\ thrLog[1] # <<>>

\* C27: for every pair of sizes asked of NewServer, below, at or above the
\* floors, the Message and Throttled channels have capacity max(size, 16) and
\* the five lifecycle channels capacity max(size, 1): the server is made, and
\* each channel holds that many events and never more
C27_ChannelCapacities ==
  /\ sizesAsked \in ActivitySizes \X LifecycleSizes
  /\ actCap = (IF sizesAsked[1] > 16 THEN sizesAsked[1] ELSE 16)
  /\ lifeCap = (IF sizesAsked[2] > 1 THEN sizesAsked[2] ELSE 1)
  /\ Len(messageEvent) <= actCap /\ Len(throttledEvent) <= actCap
  /\ Len(startedQ) <= lifeCap /\ Len(acceptFailedQ) <= lifeCap /\ Len(stoppedQ) <= lifeCap
  /\ Len(attStartedQ) <= lifeCap /\ Len(attStoppedQ) <= lifeCap
  /\ \A r \in Runs : (acc[r] = "select" /\ fan[r].pc = "select") => Len(startedQ) > 0
  /\ \A a \in Att, g \in Gor :
       rl[a][g].pc = "receive" => Len(SelectSeq(messageEvent, LAMBDA e : e.att = a)) = recvd[a]

\* a server asked for sizes 0 and 0 whose Message channel holds 16 messages and
\* whose Started, AcceptFailed and AttendantStarted channels hold one event each
C27_Witness ==
  /\ sizesAsked = <<0, 0>>
  /\ Len(messageEvent) = 16
  /\ Len(startedQ) = 1
  /\ Len(acceptFailedQ) = 1
  /\ Len(attStartedQ) = 1
  /\ sent[1] = MaxSizeMsgs

\* a step in which the fan-in goroutine takes an intermediate event and inserts
\* into or deletes from the attendant set
FanWrites == \E r \in Runs : fan[r].pc = "select" /\ fan'[r].pc \in {"pubStarted", "pubStopped"}

\* C28: the attendant set changes only in steps of the fan-in goroutine
C28_OnlyFanInWrites == [][attendants' # attendants => FanWrites]_vars

\* Server.Stop() is inside Enumerate: closer() has returned and the set has not
\* been replaced yet
Iterating == stopper.pc = "enumerate"

\* C29: the fan-in goroutine never inserts into or deletes from the attendant
\* set while Enumerate iterates it
C29_NoRaceOnSet == [][FanWrites => ~Iterating]_vars

\* the attendants whose intermediate 'started' event was received and whose
\* intermediate 'stopped' event was not
StartedNotStopped == {a \in Att : startedLog[a] > 0 /\ stoppedLog[a] = <<>>}

\* C30: whenever a fan-in goroutine is at its select, between two events, the
\* attendant set is the set of the attendants whose 'started' event it received
\* minus those whose 'stopped' event it received
C30_SetIsStartedMinusStopped ==
  \A r \in Runs : fan[r].pc = "select" => attendants = StartedNotStopped

\* the consumer of the server's channels took the 'attendant started' event of a
\* from the AttendantStarted channel
StartedHanded(a) == a \in startedPub /\ \A i \in DOMAIN attStartedQ : attStartedQ[i].att # a

\* the consumer of the server's channels took the 'attendant stopped' event of a
\* from the AttendantStopped channel
StoppedHanded(a) ==
  /\ stoppedLog[a] # <<>>
  /\ ~StoppedPublished(a)
  /\ \A r \in Runs : ~(fan[r].pc = "pubStopped" /\ fan[r].ev.att = a)

\* C31: the funnel is handed the AttendantStarted event of an attendant before
\* its AttendantStopped event
C31_StartedHandedFirst == \A a \in Att : StoppedHanded(a) => StartedHanded(a)

\* C32: once Server.Stop() has returned, the connection of every attendant the
\* run made is closed, or is eventually closed or ended
C32_StopClosesAll == \A a \in Att : (created[a] /\ StopReturned) ~> Terminated(a)

\* C33: every step of Addr(), which reads dispatcher.listener, and every step
\* that writes dispatcher.listener is taken while the dispatcher's mutex is held,
\* and no write is made while Addr() is between its two reads
C33_ListenerGuarded ==
  [][/\ addrCall' # addrCall => mutex
     /\ listener' # listener => (mutex /\ addrCall.pc # "read")]_vars

\* C34: once a Run call has failed with a resolution or a bind error, no other
\* Run call having been made, the dispatcher is idle: no listener, no accept
\* loop, and the mutex free for the next Run
C34_FailedRunLeavesIdle ==
  \A c \in Callers :
    (runner[c].result = "error" /\ \A d \in Callers \ {c} : runner[d] = NoRun)
      => (listener = "nil" /\ runs = 0 /\ RunningLoops = {} /\ ~mutex)

\* the fan-in goroutines of the server that are alive
FansAlive == {r \in Runs : FanAlive(r)}

\* C35: each accept loop that made its 'started' report spawned one fan-in
\* goroutine, and at most one fan-in goroutine of the server is alive
C35_OneFanIn ==
  /\ \A r \in Runs : (acc[r] \notin {"none", "onStart"}) <=> (fan[r].pc # "none")
  /\ Cardinality(FansAlive) <= 1

\* the absolute value of the integer d
Abs(d) == IF d < 0 THEN -d ELSE d

\* C36: for every duration d given to NewAttendant or to SetThrottle, the least
\* one included, the throttle stored is the absolute value of d, and Throttle()
\* is never negative
C36_ThrottleIsAbsolute ==
  /\ \A d \in Durations, b \in 0..MaxBuf : NewClient(d, b) => throttle[1] = Abs(d)
  /\ [](\A a \in Att : throttle[a] >= 0)
  /\ [][\A a \in Att, d \in Durations : SetThrottle(a, d) => throttle'[a] = Abs(d)]_vars

\* a step of read loop g of a that handles a message Receive() returned: the
\* receipt and the first tests, the comparison of the lapse, or the send
Handles(a, g) ==
  /\ rl[a][g].pc \in {"receive", "lapse", "sendMessage", "sendThrottled"}
  /\ rl'[a][g].pc \in {"receive", "lapse", "sendMessage", "sendThrottled"}
  /\ rl'[a][g] # rl[a][g]

\* C37: a step that handles a received message changes neither the status of
\* the attendant, nor its connection, nor its context; when the message is
\* found throttled and when its event is sent, throttleFrom is unchanged, and
\* the event carries the instant of the message and lapse = instant -
\* throttleFrom, which was smaller than the throttle when it was compared to it
C37_HandlingFrame ==
  [][\A a \in Att, g \in Gor :
       /\ Handles(a, g) =>
            /\ status'[a] = status[a]
            /\ conn'[a] = conn[a]
            /\ context'[a] = context[a]
       /\ (Handles(a, g) /\ rl'[a][g].pc = "sendThrottled") =>
            /\ throttleFrom'[a] = throttleFrom[a]
            /\ rl'[a][g].lapse = rl'[a][g].now - throttleFrom[a]
            /\ rl'[a][g].lapse < throttle[a]
       /\ (Handles(a, g) /\ rl[a][g].pc = "sendThrottled") =>
            /\ throttleFrom'[a] = throttleFrom[a]
            /\ rl[a][g].lapse = rl[a][g].now - throttleFrom[a]
            /\ actCap > 0 =>
                 throttledEvent' = Append(throttledEvent,
                                          [att |-> a, msg |-> rl[a][g].msg,
                                           instant |-> rl[a][g].now, lapse |-> rl[a][g].lapse])
            /\ actCap = 0 => thrLog'[a] = Append(thrLog[a], rl[a][g].msg)]_vars

\* a Throttled event whose lapse is 1 is in its channel, after a message went to
\* the Message channel, and the attendant is Running, with its connection open
\* and a value in its context
C37_Witness ==
  /\ \E i \in DOMAIN throttledEvent : throttledEvent[i].att = 1 /\ throttledEvent[i].lapse = 1
  /\ msgLog[1] # <<>>
  /\ status[1] = AttendantRunning
  /\ conn[1] = "open"
  /\ context[1]["user"] = "v1"

\* C38: in every state where the 'attendant stopped' event of an attendant has
\* been received, its status is Stopped, which is what makes Send return the
\* 'stopped' error and Stop the 'already stopped' error
C38_StoppedWhenReported == \A a \in Att : stoppedLog[a] # <<>> => status[a] = AttendantStopped

\* the accept-loop goroutine of run r has not yet placed its Started event
NotStarted(r) == acc[r] \in {"none", "onStart", "sendStarted"}

\* this step places an event of attendant a on one of the four channels that carry
\* attendants' events (an unbuffered Message or Throttled channel hands it over at once)
PlacesEventOf(a) ==
  \/ Len(attStartedQ') > Len(attStartedQ) /\ attStartedQ'[Len(attStartedQ')].att = a
  \/ Len(attStoppedQ') > Len(attStoppedQ) /\ attStoppedQ'[Len(attStoppedQ')].att = a
  \/ Len(messageEvent') > Len(messageEvent) /\ messageEvent'[Len(messageEvent')].att = a
  \/ Len(throttledEvent') > Len(throttledEvent) /\ throttledEvent'[Len(throttledEvent')].att = a
  \/ actCap = 0 /\ Len(msgLog'[a]) > Len(msgLog[a])
  \/ actCap = 0 /\ Len(thrLog'[a]) > Len(thrLog[a])

\* C39: for each run the Started event is placed before any AcceptFailed event of
\* the run and before any event of an attendant accepted in the run: the accept
\* loop of a run gets past its start only by placing Started and never comes
\* back; it places an AcceptFailed event, and accepts a connection, only past its
\* start; an attendant exists only once a run past its start accepted it, and an
\* event of an attendant is placed only once the attendant exists
C39_StartedFirst ==
  [][/\ \A r \in Runs :
          /\ (NotStarted(r) /\ acc'[r] \notin {"none", "onStart", "sendStarted"})
                => startedQ' = Append(startedQ, r)
          /\ ~NotStarted(r) => acc'[r] \notin {"none", "onStart", "sendStarted"}
          /\ (Len(acceptFailedQ') > Len(acceptFailedQ) /\ acceptFailedQ'[Len(acceptFailedQ')] = r)
                => ~NotStarted(r)
     /\ \A a \in Att :
          /\ (created'[a] /\ ~created[a])
                => \E r \in Runs : acc[r] = "accept" /\ acc'[r] = "select" /\ ~NotStarted(r)
          /\ PlacesEventOf(a) => created[a]]_vars

\* the first run placed Started, an accept failed and an accepted attendant's
\* start, message and stop were all placed
C39_Witness ==
  /\ ~NotStarted(1)
  /\ acceptFailedQ # <<>>
  /\ \E a \in Att : created[a] /\ a \in startedPub /\ msgLog[a] # <<>> /\ StoppedPublished(a)

\* the accept loop of run r is live: launched and not yet told to quit
LoopLive(r) == acc[r] \in {"onStart", "sendStarted", "select", "accept", "sendAcceptFailed"}

\* this step is a Dispatcher.Run that failed to resolve or to listen
RunFailed == mutex' /\ ~mutex /\ listener' = listener /\ runs' = runs

\* C40: BasicServer.Run retains a closer only when Dispatcher.Run succeeds, and
\* only the end of a Stop() drops it; a Run that fails leaves closer and
\* attendants as they were; a Stop() that begins with no closer fails with 'not
\* listening' and one that begins with a closer calls it; and while the user is
\* not inside Stop() a retained closer is that of the bound, live dispatcher
C40_CloserOnlyOnSuccess ==
  /\ [](/\ stopper.pc = "notListening" => closer = 0
        /\ (closer # 0 /\ stopper.pc = "idle")
              => (listener = "bound" /\ closer = runs /\ LoopLive(closer)))
  /\ [][/\ (closer' # closer /\ closer' # 0)
              => (listener = "nil" /\ listener' = "bound" /\ runs' = runs + 1 /\ closer' = runs')
        /\ (closer' # closer /\ closer' = 0)
              => (stopper.pc = "enumerate" /\ stopper' = Idle)
        /\ RunFailed => (closer' = closer /\ attendants' = attendants /\ stopper' = stopper)
        /\ (stopper.pc = "idle" /\ stopper'.pc # "idle")
              => IF closer = 0 THEN stopper'.pc = "notListening"
                               ELSE stopper'.pc = "closer" /\ stopper'.run = closer]_vars

\* a Run failed on an idle server and the Stop() that followed found no closer
C40_Witness == mutex /\ listener = "nil" /\ runs = 0 /\ closer = 0 /\ stopper.pc = "notListening"
====
